---- MODULE Spec2Model ----
(***************************************************************************)
(* Model of the round coordinator's in-memory state                        *)
(* (server/internal/core/application/utils.go): the tx-request queue, the  *)
(* forfeit collector and the in-round outpoint set; of the note            *)
(* repository; and of the parts of the coordinator they serve: the VTXO    *)
(* ledger's SpendAndMint, the round state machine, the redeem path's round *)
(* check and the sweeper's fraud reaction.                                 *)
(*                                                                         *)
(* Time is counted in whole minutes: `now` is the wall clock, a request's  *)
(* timestamp / pingTimestamp are the clock values at which it was pushed / *)
(* last pinged.                                                            *)
(***************************************************************************)
EXTENDS Integers, Sequences, FiniteSets, TLC

VARIABLES
    requests,   \* txRequestsQueue.requests: request id -> timedTxRequest
    now,        \* the wall clock read by time.Now(), in minutes
    last,       \* the last queue call: its name, its error ("" is nil), what pop selected
                \* and the ids it logged as deleted
    noteSet,    \* the note table: the ids InsertNote has stored
    credited,   \* note id -> how many redemptions credited it
    noteLast,   \* the last note call: its name, its notes, its error, its insert attempts
    spentCount, \* VTXO -> how many SpendAndMint calls have marked it spent
    minted,     \* the callers whose outputs SpendAndMint has minted
    ledgerLock, \* the caller inside the ledger's critical section, or Nil
    calls,      \* caller -> its SpendAndMint call: position, inputs, what it read, result
    forfeitTxs,      \* forfeitTxsMap.forfeitTxs: VtxoKey -> forfeit tx, NoForfeit when missing
    connectors,      \* forfeitTxsMap.connectors: the connector tree
    connectorsIndex, \* forfeitTxsMap.connectorsIndex: VtxoKey string -> connector outpoint
    vtxos,           \* forfeitTxsMap.vtxos
    popping,         \* the results of the pops that have unlocked and have yet to reset
    forfeitLast,     \* the last call of the forfeit collector: its name, error and txs
    audit,           \* the VtxoKeys init has registered since the last reset, and those
                     \* of them for which sign has since recorded a verified forfeit tx
    phase,           \* the phase of the current round
    round,           \* the number of the current round
    batch,           \* the requests of the current round
    outpoints,       \* outpointMap.outpoints: the strings of the in-round VtxoKeys
    roundForfeits,   \* what the forfeit collector's pop returned to the current round
    redeemLast,      \* the last redeem submission: its inputs, its error, the outpoint named
    onchain,         \* the txs of the VTXO tree that are on-chain
    spentVtxos,      \* the leaf VTXOs marked spent, whose forfeit txs are stored
    owed,            \* the leaves that were marked spent when a node above them went on-chain
    reacted,         \* the on-chain nodes the sweeper has reacted to
    broadcastForfeits, \* the leaves whose forfeit tx the sweeper has broadcast
    chain,           \* txid -> the height of the block that confirmed it, Unconfirmed if none
    tip,             \* the height of the chain's tip
    scanLast,        \* the last findSweepableOutputs call: what it was given and returned
    cltvVtxos,       \* VTXO -> the absolute locktime of its CLTV closure (NotMinted if none)
                     \* and whether a redeem has spent it
    refused,         \* the VTXOs whose redeem the locktime check has refused
    cltvLast,        \* the last redeem of a CLTV-locked VTXO: its input, the tip, its error
    treeMatrix,      \* the TreeNonces or TreePartialSigs a signer session has produced
    encodedMatrix,   \* the bytes Encode wrote for it, NotEncoded before
    decodedMatrix,   \* what DecodeNonces or DecodeSignatures read back from the bytes
    sigBatch,        \* the signing types of the receivers of the tree being signed, and
                     \* the seed of the signers' nonces
    coordNonces,     \* the coordinator's nonces: signer -> the matrix it submitted
    aggregatedNonces, \* what AggregateNonces returned
    coordSigs,       \* the coordinator's signatures: signer -> the matrix it submitted
    signedTree,      \* what SignTree returned
    treeValid,       \* what ValidateTreeSigs said of the signed tree
    qlock,           \* txRequestsQueue.lock: the goroutines holding it for writing, for reading
    threads,         \* goroutine -> its call of the queue: where it is, what it has read
    flock,           \* forfeitTxsMap.lock: the goroutine holding it, or Nil
    goroutines,      \* goroutine -> its call of the forfeit collector: where it is in it
    lockedLast       \* the last call a goroutine completed: what it returned, the queue it
                     \* left, and the outcomes the call has when run alone at its Lock

queueVars == <<requests, now, last>>
noteVars == <<noteSet, credited, noteLast>>
ledgerVars == <<spentCount, minted, ledgerLock, calls>>
forfeitVars == <<forfeitTxs, connectors, connectorsIndex, vtxos, popping, forfeitLast, audit>>
roundVars == <<phase, round, batch, outpoints, roundForfeits, redeemLast>>
sweepVars == <<onchain, spentVtxos, owed, reacted, broadcastForfeits>>
scanVars == <<chain, tip, scanLast>>
cltvVars == <<cltvVtxos, refused, cltvLast>>
musigVars == <<treeMatrix, encodedMatrix, decodedMatrix>>
signingVars == <<sigBatch, coordNonces, aggregatedNonces, coordSigs, signedTree, treeValid>>
lockVars == <<qlock, threads, lockedLast>>
raceVars == <<flock, goroutines>>
vars == <<requests, now, last, noteSet, credited, noteLast, spentCount, minted,
          ledgerLock, calls, forfeitTxs, connectors, connectorsIndex, vtxos, popping,
          forfeitLast, audit, phase, round, batch, outpoints, roundForfeits, redeemLast,
          onchain, spentVtxos, owed, reacted, broadcastForfeits, chain, tip, scanLast,
          cltvVtxos, refused, cltvLast, treeMatrix, encodedMatrix, decodedMatrix,
          sigBatch, coordNonces, aggregatedNonces, coordSigs, signedTree, treeValid,
          qlock, threads, lockedLast, flock, goroutines>>

(***************************************************************************)
(* Constants of the program                                                *)
(***************************************************************************)
selectGapMinutes == 1
deleteGapMinutes == 5

\* time.Time{}: the zero time, which pushWithNotes stores as pingTimestamp.
ZeroTime == -1
\* time.Since saturates at the largest Duration (2^63-1 ns), here in minutes.
maxDurationMinutes == 153722867

Nil == "nil"

(***************************************************************************)
(* Bounds of the model                                                     *)
(***************************************************************************)
MaxTip == 3         \* blocks are mined up to this height
MaxReceivers == 2   \* a signed VTXO tree has up to this many receivers
MaxRows == 2        \* a nonce or signature matrix has up to this many rows
MaxCltvBlocks == 2  \* a CLTV closure is locked up to this many blocks ahead
MaxClock == 2       \* the clock ticks minute by minute from 0 to MaxClock
MaxPopN == 3        \* pop(n) is called with n in -1..MaxPopN

Ids == {"r1", "r2"}

vA == [Txid |-> "a", VOut |-> 0, Amount |-> 1]
vB == [Txid |-> "a", VOut |-> 1, Amount |-> 2]
bA == [Txid |-> "d", VOut |-> 0, Amount |-> 1]
cA == [Txid |-> "e", VOut |-> 0, Amount |-> 1]
nA == [ID |-> 1, Value |-> 1]
rcv1 == [Amount |-> 1]
rcv2 == [Amount |-> 2]

\* The arguments of the calls under SpecContent ...
InputLists == {<<>>, <<vA>>, <<vB>>}
ReceiverLists == {<<>>, <<rcv1>>, <<rcv2>>}
BoardingLists == {<<>>, <<bA>>}
RecoveredLists == {<<>>, <<cA>>}
NoteLists == {<<>>, <<nA>>}
Musig2Values == {Nil}

\* ... under SpecRepeats, where a caller may name an input or a note twice ...
RepeatInputLists == {<<>>, <<vA>>, <<vA, vA>>}
RepeatBoardingLists == {<<>>, <<bA, bA>>}
RepeatRecoveredLists == {<<>>, <<cA, cA>>}
RepeatNoteLists == {<<nA>>, <<nA, nA>>}

\* ... under SpecUpdate, where requests carry MuSig2 data ...
UpdateInputLists == {<<>>, <<vA>>}
UpdateReceiverLists == {<<>>, <<rcv1>>}
StoredMusig2 == {Nil, "m1"}
UpdateMusig2 == {Nil, "m1", "m2"}

\* ... and under Spec, where the clock runs: what the clock decides depends on
\* the receivers and on the timestamps, and not on the inputs
ClockInputLists == {<<>>}
ClockReceiverLists == {<<>>, <<rcv1>>}
ClockNoteLists == {<<nA>>}

TxRequests(inputLists, receiverLists) ==
    [Id : Ids, Inputs : inputLists, Receivers : receiverLists]

(***************************************************************************)
(* Helpers                                                                 *)
(***************************************************************************)
RECURSIVE SumAmount(_)
SumAmount(s) == IF s = <<>> THEN 0 ELSE Head(s).Amount + SumAmount(Tail(s))

RECURSIVE SumValue(_)
SumValue(s) == IF s = <<>> THEN 0 ELSE Head(s).Value + SumValue(Tail(s))

\* An outpoint comparison that forgets the output index
sameOutpointTxidOnly(x, y) == x.Txid = y.Txid

\* input.Txid == pInput.Txid && input.VOut == pInput.VOut
sameOutpoint(x, y) == x.Txid = y.Txid /\ x.VOut = y.VOut

\* note.ID == rNote.ID
sameNote(x, y) == x.ID = y.ID

\* time.Since(t).Minutes()
Since(t) == IF t = ZeroTime THEN maxDurationMinutes ELSE now - t

Restrict(f, D) == [id \in D |-> f[id]]

Result(op, err, selected, deleted) ==
    [op |-> op, err |-> err, selected |-> selected, deleted |-> deleted]

(***************************************************************************)
(* txRequestsQueue                                                         *)
(***************************************************************************)
\* len(): the requests that have at least one receiver
len == Cardinality({id \in DOMAIN requests : Len(requests[id].Receivers) > 0})

timedTxRequest(request, boardingInputs, notes, timestamp, pingTimestamp, musig2Data, recoveredVtxos) ==
    [Id |-> request.Id, Inputs |-> request.Inputs, Receivers |-> request.Receivers,
     boardingInputs |-> boardingInputs, notes |-> notes,
     timestamp |-> timestamp, pingTimestamp |-> pingTimestamp,
     musig2Data |-> musig2Data, recoveredVtxos |-> recoveredVtxos]

\* A pushWithNotes that checks the request id only
pushWithNotesErrIdOnly(request, notes) ==
    IF request.Id \in DOMAIN requests THEN "duplicated tx request" ELSE ""

pushWithNotesErr(request, notes) ==
    IF request.Id \in DOMAIN requests THEN "duplicated tx request"
    ELSE IF \E i \in 1..Len(notes) : \E id \in DOMAIN requests :
              \E j \in 1..Len(requests[id].notes) : sameNote(notes[i], requests[id].notes[j])
         THEN "duplicated note"
    ELSE ""

\* m.requests after pushWithNotes
afterPushWithNotes(request, notes) ==
    IF pushWithNotesErr(request, notes) = "" THEN
        [id \in DOMAIN requests \cup {request.Id} |->
            IF id = request.Id
            THEN timedTxRequest(request, <<>>, notes, now, ZeroTime, Nil, <<>>)
            ELSE requests[id]]
    ELSE requests

pushWithNotes(request, notes) ==
    /\ requests' = afterPushWithNotes(request, notes)
    /\ last' = Result("pushWithNotes", pushWithNotesErr(request, notes), <<>>, {})
    /\ UNCHANGED <<now, noteVars, ledgerVars, forfeitVars, roundVars, sweepVars, scanVars,
                   cltvVars, musigVars, signingVars, lockVars, raceVars>>

pushErr(request, boardingInputs, recoveredVtxos) ==
    IF request.Id \in DOMAIN requests THEN "duplicated tx request"
    ELSE IF \E i \in 1..Len(request.Inputs) : \E id \in DOMAIN requests :
              \E j \in 1..Len(requests[id].Inputs) :
                 sameOutpoint(request.Inputs[i], requests[id].Inputs[j])
         THEN "duplicated input"
    ELSE IF \E i \in 1..Len(boardingInputs) : \E id \in DOMAIN requests :
              \E j \in 1..Len(requests[id].boardingInputs) :
                 sameOutpoint(boardingInputs[i], requests[id].boardingInputs[j])
         THEN "duplicated boarding input"
    ELSE IF \E i \in 1..Len(recoveredVtxos) : \E id \in DOMAIN requests :
              \E j \in 1..Len(requests[id].recoveredVtxos) :
                 sameOutpoint(recoveredVtxos[i], requests[id].recoveredVtxos[j])
         THEN "duplicated vtxo recovery"
    ELSE ""

\* A push that stores the request over the queued one of the same id
afterPushOverwriting(request, boardingInputs, recoveredVtxos, musig2Data) ==
    IF pushErr(request, boardingInputs, recoveredVtxos) \in {"", "duplicated tx request"} THEN
        [id \in DOMAIN requests \cup {request.Id} |->
            IF id = request.Id
            THEN timedTxRequest(request, boardingInputs, <<>>, now, now, musig2Data, recoveredVtxos)
            ELSE requests[id]]
    ELSE requests

\* m.requests after push
afterPush(request, boardingInputs, recoveredVtxos, musig2Data) ==
    IF pushErr(request, boardingInputs, recoveredVtxos) = "" THEN
        [id \in DOMAIN requests \cup {request.Id} |->
            IF id = request.Id
            THEN timedTxRequest(request, boardingInputs, <<>>, now, now, musig2Data, recoveredVtxos)
            ELSE requests[id]]
    ELSE requests

push(request, boardingInputs, recoveredVtxos, musig2Data) ==
    /\ requests' = afterPush(request, boardingInputs, recoveredVtxos, musig2Data)
    /\ last' = Result("push", pushErr(request, boardingInputs, recoveredVtxos), <<>>, {})
    /\ UNCHANGED <<now, noteVars, ledgerVars, forfeitVars, roundVars, sweepVars, scanVars,
                   cltvVars, musigVars, signingVars, lockVars, raceVars>>

\* A selection that takes deleteGapMinutes for selectGapMinutes
eligibleWithinDeleteGap ==
    {id \in DOMAIN requests :
        /\ Len(requests[id].Receivers) > 0
        /\ ~(Since(requests[id].pingTimestamp) > deleteGapMinutes)}

\* A first loop that does not skip the requests without receivers
eligibleWithoutReceivers ==
    {id \in DOMAIN requests : ~(Since(requests[id].pingTimestamp) > selectGapMinutes)}

\* pop's first loop keeps the requests with receivers pinged in the last minute ...
eligible == {id \in DOMAIN requests :
                /\ Len(requests[id].Receivers) > 0
                /\ ~(Since(requests[id].pingTimestamp) > selectGapMinutes)}

\* A cleanup that never deletes
expiredNever == {}

\* ... and deletes those with receivers whose last ping is older than deleteGapMinutes
expired == {id \in DOMAIN requests :
                /\ Len(requests[id].Receivers) > 0
                /\ Since(requests[id].pingTimestamp) > selectGapMinutes
                /\ Since(requests[id].pingTimestamp) > deleteGapMinutes}

\* A comparator that sorts the latest first
beforeReversed(p, q) == p.timestamp > q.timestamp

\* sort.SliceStable's comparator
before(p, q) == p.timestamp < q.timestamp

\* The outcomes of sort.SliceStable over the map's iteration order: every
\* arrangement of the eligible requests in which no request comes before an
\* earlier one.
requestsByTime ==
    {s \in [1..Cardinality(eligible) -> {requests[id] : id \in eligible}] :
        /\ \A i, j \in DOMAIN s : i # j => s[i] # s[j]
        /\ \A i, j \in DOMAIN s : i < j => ~before(s[j], s[i])}

popNum(num, n) == IF num < 0 \/ num > n THEN n ELSE num

\* requestsByTime[:num]
popSelected(num, byTime) == SubSeq(byTime, 1, popNum(num, Len(byTime)))

\* A pop that hands requests out and leaves them queued
afterPopKeepSelected(selected) == Restrict(requests, DOMAIN requests \ expired)

\* m.requests after pop: without the expired requests and the selected ones
afterPop(selected) ==
    Restrict(requests, DOMAIN requests \ (expired \cup {selected[i].Id : i \in 1..Len(selected)}))

pop(num) ==
    \E byTime \in requestsByTime :
        /\ requests' = afterPop(popSelected(num, byTime))
        /\ last' = Result("pop", "", popSelected(num, byTime), expired)
        /\ UNCHANGED <<now, noteVars, ledgerVars, forfeitVars, roundVars, sweepVars, scanVars,
                   cltvVars, musigVars, signingVars, lockVars, raceVars>>

\* What pop returns, from the requests it selected
popRequests(selected) ==
    [i \in 1..Len(selected) |->
        [Id |-> selected[i].Id, Inputs |-> selected[i].Inputs, Receivers |-> selected[i].Receivers]]

\* An update that leaves the notes out of the sum of inputs
updateErrWithoutNotes(request) ==
    IF request.Id \notin DOMAIN requests THEN "tx request not found"
    ELSE LET r == requests[request.Id]
             sumOfInputs == SumAmount(request.Inputs) + SumAmount(r.boardingInputs)
                            + SumAmount(r.recoveredVtxos)
             sumOfOutputs == SumAmount(request.Receivers)
         IN  IF sumOfInputs # sumOfOutputs THEN "sum of inputs does not match sum of outputs"
             ELSE ""

updateErr(request) ==
    IF request.Id \notin DOMAIN requests THEN "tx request not found"
    ELSE LET r == requests[request.Id]
             sumOfInputs == SumAmount(request.Inputs) + SumAmount(r.boardingInputs)
                            + SumValue(r.notes) + SumAmount(r.recoveredVtxos)
             sumOfOutputs == SumAmount(request.Receivers)
         IN  IF sumOfInputs # sumOfOutputs THEN "sum of inputs does not match sum of outputs"
             ELSE ""

\* An update that stores the MuSig2 data it is given, nil included
afterUpdateStoringNil(request, musig2Data) ==
    IF updateErr(request) = "" THEN
        [requests EXCEPT ![request.Id] =
            [@ EXCEPT !.Id = request.Id, !.Inputs = request.Inputs,
                      !.Receivers = request.Receivers,
                      !.musig2Data = musig2Data]]
    ELSE requests

\* m.requests after update
afterUpdate(request, musig2Data) ==
    IF updateErr(request) = "" THEN
        [requests EXCEPT ![request.Id] =
            [@ EXCEPT !.Id = request.Id, !.Inputs = request.Inputs,
                      !.Receivers = request.Receivers,
                      !.musig2Data = IF musig2Data # Nil THEN musig2Data ELSE @]]
    ELSE requests

update(request, musig2Data) ==
    /\ requests' = afterUpdate(request, musig2Data)
    /\ last' = Result("update", updateErr(request), <<>>, {})
    /\ UNCHANGED <<now, noteVars, ledgerVars, forfeitVars, roundVars, sweepVars, scanVars,
                   cltvVars, musigVars, signingVars, lockVars, raceVars>>

updatePingTimestampErr(reqs, id) ==
    IF id \in DOMAIN reqs THEN "" ELSE "tx request not found"

\* A ping that also renews the request's place in the queue
afterUpdatePingTimestampRenewing(reqs, id, t) ==
    IF id \in DOMAIN reqs
    THEN [reqs EXCEPT ![id].pingTimestamp = t, ![id].timestamp = t]
    ELSE reqs

\* The queue reqs after updatePingTimestamp(id) called at time t
afterUpdatePingTimestamp(reqs, id, t) ==
    IF id \in DOMAIN reqs
    THEN [reqs EXCEPT ![id].pingTimestamp = t]
    ELSE reqs

updatePingTimestamp(id) ==
    /\ requests' = afterUpdatePingTimestamp(requests, id, now)
    /\ last' = Result("updatePingTimestamp", updatePingTimestampErr(requests, id), <<>>, {})
    /\ UNCHANGED <<now, noteVars, ledgerVars, forfeitVars, roundVars, sweepVars, scanVars,
                   cltvVars, musigVars, signingVars, lockVars, raceVars>>

delete(ids) ==
    /\ requests' = Restrict(requests, DOMAIN requests \ ids)
    /\ last' = Result("delete", "", <<>>, {})
    /\ UNCHANGED <<now, noteVars, ledgerVars, forfeitVars, roundVars, sweepVars, scanVars,
                   cltvVars, musigVars, signingVars, lockVars, raceVars>>

deleteAll ==
    /\ requests' = <<>>
    /\ last' = Result("deleteAll", "", <<>>, {})
    /\ UNCHANGED <<now, noteVars, ledgerVars, forfeitVars, roundVars, sweepVars, scanVars,
                   cltvVars, musigVars, signingVars, lockVars, raceVars>>

\* The wall clock advances by a minute
Tick ==
    /\ now < MaxClock
    /\ now' = now + 1
    /\ last' = Result("tick", "", <<>>, {})
    /\ UNCHANGED <<requests, noteVars, ledgerVars, forfeitVars, roundVars, sweepVars, scanVars,
                   cltvVars, musigVars, signingVars, lockVars, raceVars>>

\* Nothing calls the queue for deleteGapMinutes
Pause ==
    /\ now <= MaxClock
    /\ now' = now + deleteGapMinutes
    /\ last' = Result("pause", "", <<>>, {})
    /\ UNCHANGED <<requests, noteVars, ledgerVars, forfeitVars, roundVars, sweepVars, scanVars,
                   cltvVars, musigVars, signingVars, lockVars, raceVars>>

(***************************************************************************)
(* noteRepository                                                          *)
(***************************************************************************)
\* The retries of Add after a conflict. The value is set outside the files
\* modelled here, so it is a bound of the model.
maxRetries == 2

NoteIds == {1, 2}

\* What one InsertNote call can answer: nil, a conflict error, another error
InsertAnswers == {"ok", "conflict", "error"}

\* The answers of the successive InsertNote calls of one Add
InsertOutcomes == [1..(maxRetries + 1) -> InsertAnswers]

NoteResult(op, ids, err, inserts, ret) ==
    [op |-> op, ids |-> ids, err |-> err, inserts |-> inserts, ret |-> ret]

\* An Add that retries after every error
RECURSIVE AddFromRetryingErrors(_, _)
AddFromRetryingErrors(outs, k) ==
    IF outs[k] # "ok" /\ k <= maxRetries
    THEN AddFromRetryingErrors(outs, k + 1)
    ELSE [err |-> IF outs[k] = "ok" THEN "" ELSE outs[k], inserts |-> k]

\* Add from its k-th InsertNote call on: the error it returns ("" is nil) and
\* the number of InsertNote calls made. After the first call attempts = 1, and
\* each retry increments it: a k-th call that conflicts is retried while
\* attempts = k <= maxRetries.
RECURSIVE AddFrom(_, _)
AddFrom(outs, k) ==
    IF outs[k] = "conflict" /\ k <= maxRetries
    THEN AddFrom(outs, k + 1)
    ELSE [err |-> IF outs[k] = "ok" THEN "" ELSE outs[k], inserts |-> k]

Add(id, outs) ==
    LET run == AddFrom(outs, 1) IN
    /\ noteSet' = IF run.err = "" THEN noteSet \cup {id} ELSE noteSet
    /\ noteLast' = NoteResult("Add", {id}, run.err, run.inserts, FALSE)
    /\ UNCHANGED <<credited, queueVars, ledgerVars, forfeitVars, roundVars, sweepVars, scanVars,
                   cltvVars, musigVars, signingVars, lockVars, raceVars>>

\* A Contains that never finds the note
ContainsNever(id) == FALSE

\* contains == 1
Contains(id) == id \in noteSet

ContainsCall(id) ==
    /\ noteLast' = NoteResult("Contains", {id}, "", 0, Contains(id))
    /\ UNCHANGED <<noteSet, credited, queueVars, ledgerVars, forfeitVars, roundVars, sweepVars,
                   scanVars, cltvVars, musigVars, signingVars, lockVars, raceVars>>

\* The redemption of a set of notes: refused when one of them is in the note
\* table; otherwise every note is added to the table, and the notes are
\* credited when every Add succeeded.
RedeemNotes(ids, outs) ==
    /\ IF \E k \in ids : Contains(k)
       THEN /\ noteLast' = NoteResult("RedeemNotes", ids, "AlreadySpent", 0, FALSE)
            /\ UNCHANGED <<noteSet, credited>>
       ELSE LET added == {k \in ids : AddFrom(outs[k], 1).err = ""} IN
            /\ noteSet' = noteSet \cup added
            /\ credited' = [k \in NoteIds |->
                               IF added = ids /\ k \in ids THEN credited[k] + 1 ELSE credited[k]]
            /\ noteLast' = NoteResult("RedeemNotes", ids,
                                      IF added = ids THEN "" ELSE "Internal", 0, FALSE)
    /\ UNCHANGED <<queueVars, ledgerVars, forfeitVars, roundVars, sweepVars, scanVars, cltvVars,
                   musigVars, signingVars, lockVars, raceVars>>

(***************************************************************************)
(* The VTXO ledger's SpendAndMint                                          *)
(***************************************************************************)
Vtxos == {"v1", "v2"}
Callers == {"round", "redeem1", "redeem2"}

Call(pc, spend, sawSpent, result) ==
    [pc |-> pc, spend |-> spend, sawSpent |-> sawSpent, result |-> result]

\* A caller (the round's finalization, a redeem submission) calls SpendAndMint
Submit(c, spend) ==
    /\ calls[c].pc = "idle"
    /\ calls' = [calls EXCEPT ![c] = Call("waiting", spend, FALSE, "")]
    /\ UNCHANGED <<spentCount, minted, ledgerLock, queueVars, noteVars, forfeitVars, roundVars, sweepVars,
                   scanVars, cltvVars, musigVars, signingVars, lockVars, raceVars>>

\* A ledger that lets every caller in
serializedNever(c) == TRUE

\* The ledger serializes its callers
serialized(c) == ledgerLock = Nil

Acquire(c) ==
    /\ calls[c].pc = "waiting"
    /\ serialized(c)
    /\ ledgerLock' = c
    /\ calls' = [calls EXCEPT ![c].pc = "locked"]
    /\ UNCHANGED <<spentCount, minted, queueVars, noteVars, forfeitVars, roundVars, sweepVars,
                   scanVars, cltvVars, musigVars, signingVars, lockVars, raceVars>>

\* The call reads whether one of its inputs is spent
Check(c) ==
    /\ calls[c].pc = "locked"
    /\ calls' = [calls EXCEPT ![c].pc = "checked",
                              ![c].sawSpent = \E v \in calls[c].spend : spentCount[v] > 0]
    /\ UNCHANGED <<spentCount, minted, ledgerLock, queueVars, noteVars, forfeitVars, roundVars, sweepVars,
                   scanVars, cltvVars, musigVars, signingVars, lockVars, raceVars>>

\* The call fails with AlreadySpent, or marks its inputs spent and mints its outputs
Commit(c) ==
    /\ calls[c].pc = "checked"
    /\ IF calls[c].sawSpent
       THEN /\ calls' = [calls EXCEPT ![c].pc = "done", ![c].result = "AlreadySpent"]
            /\ UNCHANGED <<spentCount, minted>>
       ELSE /\ calls' = [calls EXCEPT ![c].pc = "done", ![c].result = "ok"]
            /\ spentCount' = [v \in Vtxos |->
                                 IF v \in calls[c].spend THEN spentCount[v] + 1 ELSE spentCount[v]]
            /\ minted' = minted \cup {c}
    /\ ledgerLock' = Nil
    /\ UNCHANGED <<queueVars, noteVars, forfeitVars, roundVars, sweepVars, scanVars, cltvVars,
                   musigVars, signingVars, lockVars, raceVars>>

(***************************************************************************)
(* forfeitTxsMap                                                           *)
(*                                                                         *)
(* A nil slice or map is the empty sequence or function: the code reads    *)
(* these fields only through len, range and lookups. A forfeit tx is the   *)
(* record of what it spends.                                               *)
(***************************************************************************)
\* The empty string "" that stands for a forfeit tx yet to come
NoForfeit == [vtxo |-> [Txid |-> "", VOut |-> 0], connector |-> [Txid |-> "", VOut |-> 0],
              ok |-> FALSE]

MaxBatch == 2       \* init is called with at most MaxBatch requests

fA == [Txid |-> "a", VOut |-> 10, Amount |-> 1]
fB == [Txid |-> "a", VOut |-> 2, Amount |-> 1]
ForfeitVtxos == {fA, fB}
ForfeitInputLists == {<<>>, <<fA>>, <<fB>>}

\* The batches init is called with
Batches == UNION {[1..n -> [Inputs : ForfeitInputLists]] : n \in 0..MaxBatch}

Node(txid, parentTxid, leaf) == [Txid |-> txid, ParentTxid |-> parentTxid, Leaf |-> leaf]

\* The connector trees: a root and, below it, leaves listed in some order
LeafLists == {<<>>, <<"x">>, <<"y">>, <<"x", "y">>, <<"y", "x">>}
ConnectorTree(leafTxids) ==
    IF leafTxids = <<>> THEN << <<Node("root", "", FALSE)>> >>
    ELSE << <<Node("root", "", FALSE)>>,
            [i \in 1..Len(leafTxids) |-> Node(leafTxids[i], "root", TRUE)] >>
ConnectorTrees == {ConnectorTree(l) : l \in LeafLists}

\* The bytes of the txids, as Go compares strings
TxidBytes == [a |-> <<97>>, x |-> <<120>>, y |-> <<121>>, root |-> <<114>>]

\* strconv's decimal digits of a non-negative number
RECURSIVE Decimal(_)
Decimal(n) == IF n < 10 THEN <<48 + n>> ELSE Decimal(n \div 10) \o <<48 + (n % 10)>>

VtxoKey(v) == [Txid |-> v.Txid, VOut |-> v.VOut]

\* VtxoKey.String(): "txid:vout"
String(k) == TxidBytes[k.Txid] \o <<58>> \o Decimal(k.VOut)

\* Go's < on strings: bytewise, a proper prefix first
RECURSIVE StringLess(_, _)
StringLess(x, y) ==
    IF y = <<>> THEN FALSE
    ELSE IF x = <<>> THEN TRUE
    ELSE IF Head(x) # Head(y) THEN Head(x) < Head(y)
    ELSE StringLess(Tail(x), Tail(y))

RECURSIVE Flatten(_)
Flatten(ss) == IF ss = <<>> THEN <<>> ELSE Head(ss) \o Flatten(Tail(ss))

Occurrences(s, x) == Cardinality({i \in DOMAIN s : s[i] = x})
Elements(s) == {s[i] : i \in DOMAIN s}

\* TxTree.Leaves(): the leaf nodes, in the order the tree lists them
Leaves(tree) ==
    LET nodes == Flatten(tree) IN SelectSeq(nodes, LAMBDA n : n.Leaf)

\* A sort by txid and output number
sortedByOutpoint(s) ==
    {t \in [1..Len(s) -> Elements(s)] :
        /\ \A x \in Elements(s) : Occurrences(t, x) = Occurrences(s, x)
        /\ \A i, j \in DOMAIN t : i < j =>
              ~(\/ StringLess(TxidBytes[t[j].Txid], TxidBytes[t[i].Txid])
                \/ t[j].Txid = t[i].Txid /\ t[j].VOut < t[i].VOut)}

\* The outcomes of sort.Slice with the comparator String() < String(): the
\* arrangements of the slice in which no element comes before a smaller one
sortedByString(s) ==
    {t \in [1..Len(s) -> Elements(s)] :
        /\ \A x \in Elements(s) : Occurrences(t, x) = Occurrences(s, x)
        /\ \A i, j \in DOMAIN t : i < j => ~StringLess(String(VtxoKey(t[j])), String(VtxoKey(t[i])))}

ForfeitResult(op, err, txs) == [op |-> op, err |-> err, txs |-> txs]

\* vtxosToSign: the inputs of the requests, appended request by request
vtxosToSign(requestList) == Flatten([i \in 1..Len(requestList) |-> requestList[i].Inputs])

\* An init that looks for connector leaves even when there is nothing to sign
initErrAlwaysNeedsLeaves(tree, requestList) ==
    IF Len(Leaves(tree)) = 0 THEN "no connectors found"
    ELSE IF Len(vtxosToSign(requestList)) > Len(Leaves(tree)) THEN "more vtxos to sign than outpoints"
    ELSE ""

\* An init that wants a spare connector leaf
initErrStrict(tree, requestList) ==
    IF Len(vtxosToSign(requestList)) = 0 THEN ""
    ELSE IF Len(Leaves(tree)) = 0 THEN "no connectors found"
    ELSE IF Len(vtxosToSign(requestList)) >= Len(Leaves(tree)) THEN "more vtxos to sign than outpoints"
    ELSE ""

initErr(tree, requestList) ==
    IF Len(vtxosToSign(requestList)) = 0 THEN ""
    ELSE IF Len(Leaves(tree)) = 0 THEN "no connectors found"
    ELSE IF Len(vtxosToSign(requestList)) > Len(Leaves(tree)) THEN "more vtxos to sign than outpoints"
    ELSE ""

\* connectorsOutpoints: output 0 of every leaf, in the order of Leaves()
connectorsOutpoints(tree) ==
    [i \in 1..Len(Leaves(tree)) |-> [Txid |-> Leaves(tree)[i].Txid, VOut |-> 0]]

\* An index that binds every vtxo to the first connector
initIndexFirstLeaf(tree, sorted) ==
    [str \in {String(VtxoKey(sorted[i])) : i \in DOMAIN sorted} |-> connectorsOutpoints(tree)[1]]

\* The index init builds from the sorted vtxos: a later position overwrites an
\* earlier one with the same key
initIndex(tree, sorted) ==
    [str \in {String(VtxoKey(sorted[i])) : i \in DOMAIN sorted} |->
        LET i == CHOOSE i \in DOMAIN sorted :
                    /\ String(VtxoKey(sorted[i])) = str
                    /\ \A j \in DOMAIN sorted : String(VtxoKey(sorted[j])) = str => j <= i
        IN  connectorsOutpoints(tree)[i]]

\* m.forfeitTxs after init's first loop
initForfeitTxs(requestList) ==
    LET keys == {VtxoKey(v) : v \in Elements(vtxosToSign(requestList))} IN
    [k \in DOMAIN forfeitTxs \cup keys |-> IF k \in keys THEN NoForfeit ELSE forfeitTxs[k]]

init(tree, requestList) ==
    /\ forfeitTxs' = initForfeitTxs(requestList)
    /\ connectors' = tree
    /\ forfeitLast' = ForfeitResult("init", initErr(tree, requestList), {})
    /\ IF Len(vtxosToSign(requestList)) = 0
       THEN vtxos' = <<>> /\ connectorsIndex' = <<>>
       ELSE IF Len(Leaves(tree)) = 0
       THEN vtxos' = vtxosToSign(requestList) /\ UNCHANGED connectorsIndex
       ELSE \E sorted \in sortedByString(vtxosToSign(requestList)) :
               /\ vtxos' = sorted
               /\ IF initErr(tree, requestList) = ""
                  THEN connectorsIndex' = initIndex(tree, sorted)
                  ELSE UNCHANGED connectorsIndex
    /\ audit' = LET keys == {VtxoKey(v) : v \in Elements(vtxosToSign(requestList))} IN
                [registered |-> audit.registered \cup keys,
                 recorded |-> audit.recorded \ keys]

\* init called by the round coordinator, which is not inside pop
InitCall(tree, requestList) ==
    /\ ~popping.active
    /\ init(tree, requestList)
    /\ UNCHANGED <<popping, queueVars, noteVars, ledgerVars, roundVars, sweepVars, scanVars,
                   cltvVars, musigVars, signingVars, lockVars, raceVars>>

\* The forfeit txs clients submit: the vtxo and the connector outpoint a tx
\* spends, and whether its output, amount and signature are in order
SubmittedTxs ==
    [vtxo : {VtxoKey(v) : v \in ForfeitVtxos},
     connector : [Txid : {"x", "y"}, VOut : {0}],
     ok : {TRUE}]
    \cup {[vtxo |-> VtxoKey(fA), connector |-> [Txid |-> "x", VOut |-> 0], ok |-> FALSE]}
SignLists == {<<>>} \cup {<<t>> : t \in SubmittedTxs}
                   \cup {<<t, u>> : t \in SubmittedTxs, u \in SubmittedTxs}

\* TxBuilder.VerifyForfeitTxs: every tx must spend a vtxo of the batch and the
\* connector outpoint the index assigns to it, and be in order otherwise
verifyErr(vs, index, txs) ==
    IF \E i \in DOMAIN txs :
          \/ txs[i].vtxo \notin {VtxoKey(v) : v \in Elements(vs)}
          \/ String(txs[i].vtxo) \notin DOMAIN index
          \/ ~txs[i].ok
    THEN "invalid forfeit tx"
    ELSE IF \E i \in DOMAIN txs : index[String(txs[i].vtxo)] # txs[i].connector
    THEN "invalid forfeit tx"
    ELSE ""

\* validTxs: the verified tx of every vtxo, the last one submitted for it
validTxs(txs) ==
    [k \in {txs[i].vtxo : i \in DOMAIN txs} |->
        txs[CHOOSE i \in DOMAIN txs :
                /\ txs[i].vtxo = k
                /\ \A j \in DOMAIN txs : txs[j].vtxo = k => j <= i]]

signErr(txs) ==
    IF Len(txs) = 0 THEN ""
    ELSE IF Len(vtxos) = 0 \/ Len(connectors) = 0 THEN "forfeit txs map not initialized"
    ELSE IF verifyErr(vtxos, connectorsIndex, txs) # "" THEN verifyErr(vtxos, connectorsIndex, txs)
    ELSE IF \E k \in DOMAIN validTxs(txs) : k \notin DOMAIN forfeitTxs
    THEN "unexpected forfeit tx"
    ELSE ""

\* A sign that records the forfeits it recognises before it reports an error
signWritesDespiteError(txs) ==
    IF Len(txs) = 0 THEN {{}}
    ELSE {DOMAIN validTxs(txs) \cap DOMAIN forfeitTxs}

\* The keys sign's loop writes: all of validTxs, or, when the loop meets a key
\* that is not in the batch, those the map's iteration gave before it
signWrites(txs) ==
    IF Len(txs) = 0 \/ signErr(txs) \notin {"", "unexpected forfeit tx"} THEN {{}}
    ELSE IF signErr(txs) = "" THEN {DOMAIN validTxs(txs)}
    ELSE SUBSET (DOMAIN validTxs(txs) \cap DOMAIN forfeitTxs)

\* sign on the collector's own state
signLocked(txs) ==
    \E written \in signWrites(txs) :
        /\ forfeitTxs' = [k \in DOMAIN forfeitTxs |->
                             IF k \in written THEN validTxs(txs)[k] ELSE forfeitTxs[k]]
        /\ audit' = [audit EXCEPT !.recorded = @ \cup written]
        /\ forfeitLast' = ForfeitResult("sign", signErr(txs), {})
        /\ UNCHANGED <<connectors, connectorsIndex, vtxos, popping>>

sign(txs) ==
    /\ signLocked(txs)
    /\ UNCHANGED <<queueVars, noteVars, ledgerVars, roundVars, sweepVars, scanVars,
                   cltvVars, musigVars, signingVars, lockVars, raceVars>>

NoPop == [active |-> FALSE, err |-> "", txs |-> {}]

\* m.reset() on the collector's own state
resetLocked ==
    /\ forfeitTxs' = <<>>
    /\ connectors' = <<>>
    /\ connectorsIndex' = <<>>
    /\ vtxos' = <<>>
    /\ audit' = [registered |-> {}, recorded |-> {}]
    /\ forfeitLast' = ForfeitResult("reset", "", {})
    /\ UNCHANGED popping

\* m.reset()
reset ==
    /\ resetLocked
    /\ UNCHANGED <<queueVars, noteVars, ledgerVars, roundVars, sweepVars, scanVars,
                   cltvVars, musigVars, signingVars, lockVars, raceVars>>

\* A pop that returns what it has when a forfeit is missing
popErrLenient == ""

\* pop's loop: an error as soon as it meets an empty entry
popErr ==
    IF \E k \in DOMAIN forfeitTxs : forfeitTxs[k] = NoForfeit THEN "missing forfeit tx" ELSE ""

\* The txs pop returns, in the order the map's iteration gives them: nil with an error
popTxs == IF popErr # "" THEN {} ELSE {forfeitTxs[k] : k \in DOMAIN forfeitTxs}

\* pop up to the release of the lock: the loop over m.forfeitTxs
popLocked ==
    /\ ~popping.active
    /\ popping' = [active |-> TRUE, err |-> popErr, txs |-> popTxs]
    /\ UNCHANGED <<forfeitTxs, connectors, connectorsIndex, vtxos, forfeitLast, audit>>

PopLockedCall ==
    /\ popLocked
    /\ UNCHANGED <<queueVars, noteVars, ledgerVars, roundVars, sweepVars, scanVars, cltvVars,
                   musigVars, signingVars, lockVars, raceVars>>

\* pop's deferred function after m.lock.Unlock(): m.reset(), and the return
popReset ==
    /\ popping.active
    /\ forfeitTxs' = <<>>
    /\ connectors' = <<>>
    /\ connectorsIndex' = <<>>
    /\ vtxos' = <<>>
    /\ audit' = [registered |-> {}, recorded |-> {}]
    /\ forfeitLast' = ForfeitResult("pop", popping.err, popping.txs)
    /\ popping' = NoPop

PopResetCall ==
    /\ popReset
    /\ UNCHANGED <<queueVars, noteVars, ledgerVars, roundVars, sweepVars, scanVars, cltvVars,
                   musigVars, signingVars, lockVars, raceVars>>

\* An allSigned that is content with one forfeit
allSignedAny == \E k \in DOMAIN forfeitTxs : forfeitTxs[k] # NoForfeit

allSigned == \A k \in DOMAIN forfeitTxs : forfeitTxs[k] # NoForfeit

allSignedCall ==
    /\ forfeitLast' = ForfeitResult("allSigned", IF allSigned THEN "true" ELSE "false", {})
    /\ UNCHANGED <<forfeitTxs, connectors, connectorsIndex, vtxos, popping, audit,
                   queueVars, noteVars, ledgerVars, roundVars, sweepVars, scanVars,
                   cltvVars, musigVars, signingVars, lockVars, raceVars>>

(***************************************************************************)
(* outpointMap and getSpentVtxos                                           *)
(***************************************************************************)
\* getSpentVtxos: the keys of the inputs of the requests. The requests come
\* in the order of a map's iteration; add and remove do not depend on it.
getSpentVtxos(requestList) ==
    [i \in 1..Len(vtxosToSign(requestList)) |-> VtxoKey(vtxosToSign(requestList)[i])]

\* r.outpoints after add
afterAdd(outs) == outpoints \cup {String(outs[i]) : i \in DOMAIN outs}

\* r.outpoints after remove
afterRemove(outs) == outpoints \ {String(outs[i]) : i \in DOMAIN outs}

includes(outpoint) == String(outpoint) \in outpoints

\* An includesAny that looks at the first outpoint only
includesAnyFirstOnly(outs) ==
    IF outs # <<>> /\ String(outs[1]) \in outpoints
    THEN [found |-> TRUE, name |-> String(outs[1])]
    ELSE [found |-> FALSE, name |-> <<>>]

\* includesAny: whether one of the outpoints is in the map, and the first such
includesAny(outs) ==
    IF \E i \in DOMAIN outs : String(outs[i]) \in outpoints
    THEN [found |-> TRUE,
          name |-> String(outs[CHOOSE i \in DOMAIN outs :
                                   /\ String(outs[i]) \in outpoints
                                   /\ \A j \in 1..(i - 1) : String(outs[j]) \notin outpoints])]
    ELSE [found |-> FALSE, name |-> <<>>]

(***************************************************************************)
(* The round state machine and the redeem path's round check               *)
(***************************************************************************)
MaxRounds == 2      \* the rounds the coordinator runs

Phases == {"Idle", "Registration", "TreeSigning", "ForfeitCollection", "Finalization",
           "Done", "Failed"}

NoRoundForfeits == [popped |-> FALSE, err |-> "", txs |-> {}]

\* The batches of the rounds: without input vtxos, with one, with two
RoundBatches == {<<[Inputs |-> <<>>]>>, <<[Inputs |-> <<fA>>]>>,
                 <<[Inputs |-> <<fB>>], [Inputs |-> <<fA>>]>>}

RedeemResult(inputs, err, name) == [inputs |-> inputs, err |-> err, name |-> name]

\* Idle -> Registration on the round tick: the batch is popped from the queue
\* (an empty batch leaves the round Idle)
StartRegistration(requestList) ==
    /\ phase = "Idle"
    /\ Len(requestList) > 0
    /\ phase' = "Registration"
    /\ batch' = requestList
    /\ UNCHANGED <<round, outpoints, roundForfeits, redeemLast, queueVars, noteVars,
                   ledgerVars, forfeitVars, sweepVars, scanVars, cltvVars, musigVars,
                   signingVars, lockVars, raceVars>>

\* Registration -> TreeSigning on the registration deadline
StartTreeSigning ==
    /\ phase = "Registration"
    /\ phase' = "TreeSigning"
    /\ UNCHANGED <<round, batch, outpoints, roundForfeits, redeemLast, queueVars, noteVars,
                   ledgerVars, forfeitVars, sweepVars, scanVars, cltvVars, musigVars,
                   signingVars, lockVars, raceVars>>

\* TreeSigning -> ForfeitCollection when the tree is signed: the forfeit
\* collector is initialized with the connector tree and the batch, and a
\* failing init is fatal for the round
StartForfeitCollection(tree) ==
    /\ phase = "TreeSigning"
    /\ ~popping.active
    /\ init(tree, batch)
    /\ phase' = IF initErr(tree, batch) = "" THEN "ForfeitCollection" ELSE "Failed"
    /\ UNCHANGED <<round, batch, outpoints, roundForfeits, redeemLast, popping, queueVars,
                   noteVars, ledgerVars, sweepVars, scanVars, cltvVars, musigVars,
                   signingVars, lockVars, raceVars>>

\* ForfeitCollection -> Finalization when allSigned(): the inputs of the
\* batch enter the in-round outpoint set
StartFinalization ==
    /\ phase = "ForfeitCollection"
    /\ allSigned
    /\ phase' = "Finalization"
    /\ outpoints' = afterAdd(getSpentVtxos(batch))
    /\ UNCHANGED <<round, batch, roundForfeits, redeemLast, queueVars, noteVars, ledgerVars,
                   forfeitVars, sweepVars, scanVars, cltvVars, musigVars, signingVars,
                   lockVars, raceVars>>

\* Finalization: the round takes the forfeit txs with pop ...
FinalizationPop ==
    /\ phase = "Finalization"
    /\ ~roundForfeits.popped
    /\ popLocked
    /\ UNCHANGED <<roundVars, queueVars, noteVars, ledgerVars, sweepVars, scanVars, cltvVars,
                   musigVars, signingVars, lockVars, raceVars>>

\* ... whose deferred reset runs before it returns
FinalizationPopReturn ==
    /\ phase = "Finalization"
    /\ popReset
    /\ roundForfeits' = [popped |-> TRUE, err |-> popping.err, txs |-> popping.txs]
    /\ UNCHANGED <<phase, round, batch, outpoints, redeemLast, queueVars, noteVars,
                   ledgerVars, sweepVars, scanVars, cltvVars, musigVars, signingVars,
                   lockVars, raceVars>>

\* Finalization -> Done after the round tx is broadcast and SpendAndMint
\* succeeds: the inputs of the batch leave the in-round outpoint set
Finish ==
    /\ phase = "Finalization"
    /\ roundForfeits.popped
    /\ roundForfeits.err = ""
    /\ phase' = "Done"
    /\ outpoints' = afterRemove(getSpentVtxos(batch))
    /\ UNCHANGED <<round, batch, roundForfeits, redeemLast, queueVars, noteVars, ledgerVars,
                   forfeitVars, sweepVars, scanVars, cltvVars, musigVars, signingVars,
                   lockVars, raceVars>>

\* -> Failed from any phase of a started round, on a missed deadline, a
\* misbehaving signer or a wallet error; a pop in flight returns first
Fail ==
    /\ phase \in {"Registration", "TreeSigning", "ForfeitCollection", "Finalization"}
    /\ ~popping.active
    /\ phase' = "Failed"
    /\ outpoints' = IF phase = "Finalization" THEN afterRemove(getSpentVtxos(batch))
                    ELSE outpoints
    /\ UNCHANGED <<round, batch, roundForfeits, redeemLast, queueVars, noteVars, ledgerVars,
                   forfeitVars, sweepVars, scanVars, cltvVars, musigVars, signingVars,
                   lockVars, raceVars>>

\* The next round starts Idle once the previous one is Done or Failed
NextRound ==
    /\ phase \in {"Done", "Failed"}
    /\ round < MaxRounds
    /\ round' = round + 1
    /\ phase' = "Idle"
    /\ batch' = <<>>
    /\ roundForfeits' = NoRoundForfeits
    /\ UNCHANGED <<outpoints, redeemLast, queueVars, noteVars, ledgerVars, forfeitVars, sweepVars,
                   scanVars, cltvVars, musigVars, signingVars, lockVars, raceVars>>

\* The inputs of the redeem txs clients submit
RedeemInputLists == {<<VtxoKey(fA)>>, <<VtxoKey(fB), VtxoKey(fA)>>}

\* A redeem submission: refused with RoundInProgress when one of its inputs
\* is in the in-round outpoint set, handed on to the other checks otherwise
redeemErr(inputs) == IF includesAny(inputs).found THEN "RoundInProgress" ELSE ""

SubmitRedeemTx(inputs) ==
    /\ redeemLast' = RedeemResult(inputs, redeemErr(inputs), includesAny(inputs).name)
    /\ UNCHANGED <<phase, round, batch, outpoints, roundForfeits, queueVars, noteVars,
                   ledgerVars, forfeitVars, sweepVars, scanVars, cltvVars, musigVars,
                   signingVars, lockVars, raceVars>>

(***************************************************************************)
(* The sweeper's fraud reaction                                            *)
(***************************************************************************)
\* A VTXO tree: the root, an internal node below it, and three leaves
SweepTree ==
    << <<Node("t0", "roundtx", FALSE)>>,
       <<Node("t1", "t0", FALSE), Node("l3", "t0", TRUE)>>,
       <<Node("l1", "t1", TRUE), Node("l2", "t1", TRUE)>> >>

TreeNodes == Elements(Flatten(SweepTree))
InternalTxids == {n.Txid : n \in {m \in TreeNodes : ~m.Leaf}}
LeafTxids == {n.Txid : n \in {m \in TreeNodes : m.Leaf}}
ParentOf(txid) == (CHOOSE n \in TreeNodes : n.Txid = txid).ParentTxid

\* The txs of the tree above a tx, up to the root
RECURSIVE Ancestors(_)
Ancestors(txid) ==
    IF ParentOf(txid) = "roundtx" THEN {} ELSE {ParentOf(txid)} \cup Ancestors(ParentOf(txid))

\* TxTree.Children
Children(txid) == {n.Txid : n \in {m \in TreeNodes : m.ParentTxid = txid}}

\* A search that stops at the children of the node
LeavesBeneathChildrenOnly(txid) == Children(txid) \cap LeafTxids

\* The leaves beneath a node of the tree, at any depth
RECURSIVE LeavesBeneath(_)
LeavesBeneath(txid) ==
    (Children(txid) \cap LeafTxids)
    \cup UNION {LeavesBeneath(c) : c \in Children(txid) \ LeafTxids}

\* A later round or a redeem spends a leaf VTXO that is not yet on-chain: it
\* is marked spent and its forfeit tx is stored
MarkSpent(leaf) ==
    /\ leaf \notin spentVtxos
    /\ leaf \notin onchain
    /\ spentVtxos' = spentVtxos \cup {leaf}
    /\ UNCHANGED <<onchain, owed, reacted, broadcastForfeits, queueVars, noteVars,
                   ledgerVars, forfeitVars, roundVars, scanVars, cltvVars, musigVars,
                   signingVars, lockVars, raceVars>>

\* A tx of the tree appears on-chain, its parent being on-chain already
Unroll(txid) ==
    /\ txid \notin onchain
    /\ ParentOf(txid) = "roundtx" \/ ParentOf(txid) \in onchain
    /\ onchain' = onchain \cup {txid}
    /\ owed' = IF txid \in InternalTxids
               THEN owed \cup {leaf \in spentVtxos : txid \in Ancestors(leaf)}
               ELSE owed
    /\ UNCHANGED <<spentVtxos, reacted, broadcastForfeits, queueVars, noteVars, ledgerVars,
                   forfeitVars, roundVars, scanVars, cltvVars, musigVars, signingVars,
                   lockVars, raceVars>>

\* The sweeper, notified of an internal node on-chain, broadcasts the stored
\* forfeit txs of the spent leaves beneath it
ReactToFraud(txid) ==
    /\ txid \in onchain \cap InternalTxids
    /\ txid \notin reacted
    /\ reacted' = reacted \cup {txid}
    /\ broadcastForfeits' = broadcastForfeits \cup (LeavesBeneath(txid) \cap spentVtxos)
    /\ UNCHANGED <<onchain, spentVtxos, owed, queueVars, noteVars, ledgerVars, forfeitVars,
                   roundVars, scanVars, cltvVars, musigVars, signingVars, lockVars,
                   raceVars>>

(***************************************************************************)
(* The sweeper's search for sweepable outputs                              *)
(***************************************************************************)
RoundTxid == "roundtx"
ChainTxids == {RoundTxid} \cup {n.Txid : n \in TreeNodes}
Unconfirmed == 0

\* The relative locktime of the tree's sweep closure, as GetSweepInput reports it
vtxoTreeExpiry == 2

SchedulerUnits == {"BlockHeight", "Timestamp"}

\* The time of the block at a height
BlockTime(height) == 100 + 10 * height

\* The txids whose status the wallet fails to report, per call of the search
FaultySets == {{}, {"t1"}, {RoundTxid}}

\* A wallet whose queries never fail
IsTransactionConfirmedNoErr(env, txid) ==
    [isConfirmed |-> env.chain[txid] # Unconfirmed,
     height |-> env.chain[txid],
     blocktime |-> BlockTime(env.chain[txid]),
     err |-> FALSE]

\* walletSvc.IsTransactionConfirmed, on a chain the wallet can read
IsTransactionConfirmed(env, txid) ==
    [isConfirmed |-> env.chain[txid] # Unconfirmed,
     height |-> env.chain[txid],
     blocktime |-> BlockTime(env.chain[txid]),
     err |-> txid \in env.faulty]

\* A cache that keeps the height whatever the scheduler's unit
StampHeight(env, status) == status.height

\* What the blocktime cache keeps of a confirmed tx
Stamp(env, status) ==
    IF env.schedulerUnit = "BlockHeight" THEN status.height ELSE status.blocktime

\* TxTree.Children, in the order of the tree
ChildNodes(vtxoTree, txid) ==
    SelectSeq(Flatten(vtxoTree), LAMBDA n : n.ParentTxid = txid)

\* sweepableOutputs[expirationTime] = append(sweepableOutputs[expirationTime], sweepInput)
appendSweepInput(sweepableOutputs, expirationTime, sweepInput) ==
    IF expirationTime \in DOMAIN sweepableOutputs
    THEN [sweepableOutputs EXCEPT ![expirationTime] = Append(@, sweepInput)]
    ELSE sweepableOutputs @@ (expirationTime :> <<sweepInput>>)

\* A search that does not look below a confirmed node
checkNodeNoDescent(st, node, env) ==
    IF st.err # "" THEN st
    ELSE IF IsTransactionConfirmed(env, node.Txid).isConfirmed
         THEN [st EXCEPT !.inspected = @ \cup {node.Txid}]
         ELSE [st EXCEPT !.inspected = @ \cup {node.Txid},
                         !.out = appendSweepInput(@,
                                     Stamp(env, IsTransactionConfirmed(env, node.ParentTxid))
                                         + vtxoTreeExpiry, node.Txid)]

\* One turn of the inner loop of findSweepableOutputs; once err is set the
\* function has returned
checkNode(st, node, env) ==
    IF st.err # "" THEN st
    ELSE
        LET status == IsTransactionConfirmed(env, node.Txid)
            parent == IsTransactionConfirmed(env, node.ParentTxid)
            cached == node.ParentTxid \in DOMAIN st.blocktimeCache
            st1 == [st EXCEPT !.inspected = @ \cup {node.Txid}]
        IN  IF status.err THEN [st1 EXCEPT !.err = "wallet"]
            ELSE IF ~status.isConfirmed
            THEN IF ~cached /\ (~parent.isConfirmed \/ parent.err)
                 THEN [st1 EXCEPT !.err = "tx not found"]
                 ELSE LET cache == IF cached THEN st.blocktimeCache
                                   ELSE st.blocktimeCache
                                            @@ (node.ParentTxid :> Stamp(env, parent))
                          expirationTime == cache[node.ParentTxid] + vtxoTreeExpiry
                      IN  [st1 EXCEPT !.blocktimeCache = cache,
                                      !.out = appendSweepInput(@, expirationTime, node.Txid)]
            ELSE [st1 EXCEPT !.blocktimeCache = (node.Txid :> Stamp(env, status)) @@ @,
                             !.newNodesToCheck =
                                 IF node.Leaf THEN @
                                 ELSE @ \o ChildNodes(env.vtxoTree, node.Txid)]

\* The inner loop over nodesToCheck, from its i-th node on
RECURSIVE checkNodes(_, _, _, _)
checkNodes(st, nodesToCheck, i, env) ==
    IF i > Len(nodesToCheck) THEN st
    ELSE checkNodes(checkNode(st, nodesToCheck[i], env), nodesToCheck, i + 1, env)

\* The outer loop: level after level until no node is left to check
RECURSIVE checkLevels(_, _, _)
checkLevels(st, nodesToCheck, env) ==
    IF st.err # "" \/ Len(nodesToCheck) = 0 THEN st
    ELSE LET done == checkNodes([st EXCEPT !.newNodesToCheck = <<>>], nodesToCheck, 1, env)
         IN  checkLevels(done, done.newNodesToCheck, env)

\* findSweepableOutputs: the sweep inputs by expiration time, or an error and
\* no map; `inspected` notes the nodes whose status it asked for
findSweepableOutputs(env) ==
    LET st == checkLevels([err |-> "", out |-> <<>>, blocktimeCache |-> <<>>,
                           newNodesToCheck |-> <<>>, inspected |-> {}],
                          env.vtxoTree[1], env)
    IN  [err |-> st.err,
         sweepableOutputs |-> IF st.err = "" THEN st.out ELSE <<>>,
         inspected |-> st.inspected]

ScanEnv(schedulerUnit, faulty) ==
    [vtxoTree |-> SweepTree, chain |-> chain, schedulerUnit |-> schedulerUnit,
     faulty |-> faulty]

NoScan == [op |-> "new", env |-> ScanEnv("BlockHeight", {}), err |-> "",
           sweepableOutputs |-> <<>>, inspected |-> {}]

\* A block is mined
Mine ==
    /\ tip < MaxTip
    /\ tip' = tip + 1
    /\ UNCHANGED <<chain, scanLast, queueVars, noteVars, ledgerVars, forfeitVars, roundVars,
                   sweepVars, cltvVars, musigVars, signingVars, lockVars, raceVars>>

\* The block at the tip confirms a tx whose parent is confirmed
Confirm(txid) ==
    /\ chain[txid] = Unconfirmed
    /\ IF txid = RoundTxid THEN TRUE ELSE chain[ParentOf(txid)] # Unconfirmed
    /\ chain' = [chain EXCEPT ![txid] = tip]
    /\ UNCHANGED <<tip, scanLast, queueVars, noteVars, ledgerVars, forfeitVars, roundVars,
                   sweepVars, cltvVars, musigVars, signingVars, lockVars, raceVars>>

\* The sweeper searches the tree
Scan(schedulerUnit, faulty) ==
    /\ LET env == ScanEnv(schedulerUnit, faulty)
           res == findSweepableOutputs(env)
       IN  scanLast' = [op |-> "findSweepableOutputs", env |-> env, err |-> res.err,
                        sweepableOutputs |-> res.sweepableOutputs,
                        inspected |-> res.inspected]
    /\ UNCHANGED <<chain, tip, queueVars, noteVars, ledgerVars, forfeitVars, roundVars,
                   sweepVars, cltvVars, musigVars, signingVars, lockVars, raceVars>>

(***************************************************************************)
(* The redeem of a VTXO locked by a CLTV closure                           *)
(***************************************************************************)
CltvVtxos == {"c1", "c2"}
NotMinted == 0

\* A check that asks for a tip beyond the locktime
cltvSatisfiedBeyond(locktime, currentTipHeight) == currentTipHeight > locktime

\* The absolute locktime of a CLTV closure against the height of the tip
cltvSatisfied(locktime, currentTipHeight) == currentTipHeight >= locktime

CltvResult(op, vtxo, height, checksPass, err) ==
    [op |-> op, vtxo |-> vtxo, height |-> height, checksPass |-> checksPass, err |-> err]

\* A VTXO is sent to a closure CLTV(tip + cltvBlocks, {bob, server})
SendToCLTV(vtxo, cltvBlocks) ==
    /\ cltvVtxos[vtxo].locktime = NotMinted
    /\ cltvVtxos' = [cltvVtxos EXCEPT ![vtxo] = [locktime |-> tip + cltvBlocks,
                                                 spent |-> FALSE]]
    /\ cltvLast' = CltvResult("SendToCLTV", vtxo, tip, TRUE, "")
    /\ UNCHANGED <<refused, queueVars, noteVars, ledgerVars, forfeitVars, roundVars,
                   sweepVars, scanVars, musigVars, signingVars, lockVars, raceVars>>

\* The error of a redeem tx that spends the VTXO through its CLTV closure;
\* checksPass tells whether the witness and the balance of the tx are in order
cltvRedeemErr(vtxo, checksPass) ==
    IF ~checksPass THEN "invalid redeem tx"
    ELSE IF ~cltvSatisfied(cltvVtxos[vtxo].locktime, tip) THEN "locktime not satisfied"
    ELSE IF cltvVtxos[vtxo].spent THEN "already spent"
    ELSE ""

\* SubmitRedeemTx of a tx spending a minted CLTV-locked VTXO
SubmitCltvRedeemTx(vtxo, checksPass) ==
    /\ cltvVtxos[vtxo].locktime # NotMinted
    /\ LET err == cltvRedeemErr(vtxo, checksPass)
       IN  /\ cltvLast' = CltvResult("SubmitRedeemTx", vtxo, tip, checksPass, err)
           /\ cltvVtxos' = IF err = "" THEN [cltvVtxos EXCEPT ![vtxo].spent = TRUE]
                           ELSE cltvVtxos
           /\ refused' = IF err = "locktime not satisfied" THEN refused \cup {vtxo}
                         ELSE refused
    /\ UNCHANGED <<queueVars, noteVars, ledgerVars, forfeitVars, roundVars, sweepVars,
                   scanVars, musigVars, signingVars, lockVars, raceVars>>

(***************************************************************************)
(* The encoding of MuSig2 tree nonces and partial signatures               *)
(***************************************************************************)
\* A position of a matrix holds the bytes of a value, or nothing (a nil
\* pointer) where the signer does not take part
NilCell == <<>>

\* The widths of a public nonce and of a partial signature's S, scaled down
\* from 66 and 32 bytes
CellWidth == [nonces |-> 2, sigs |-> 1]
MatrixKinds == {"nonces", "sigs"}
CellValues == [nonces |-> {<<0, 1>>, <<1, 0>>}, sigs |-> {<<0>>, <<1>>}]
RowLengths == 0..2

\* The matrices of a kind: a row per level of the tree, a position per node
Rows(kind) ==
    UNION {[1..n -> CellValues[kind] \cup {NilCell}] : n \in RowLengths}
Matrices(kind) == UNION {[1..n -> Rows(kind)] : n \in 0..MaxRows}

\* A uint32 in little-endian bytes
U32(n) == <<n % 256, (n \div 256) % 256, (n \div 65536) % 256, (n \div 16777216) % 256>>

\* An encoding without the presence byte
encodeCellNoFlag(cell) == cell

\* A position: a presence byte, then the value if there is one
encodeCell(cell) == IF cell = NilCell THEN <<0>> ELSE <<1>> \o cell

RECURSIVE encodeCells(_, _)
encodeCells(row, j) ==
    IF j > Len(row) THEN <<>> ELSE encodeCell(row[j]) \o encodeCells(row, j + 1)

\* A row: its length, then its positions
encodeRow(row) == U32(Len(row)) \o encodeCells(row, 1)

RECURSIVE encodeRows(_, _)
encodeRows(matrix, i) ==
    IF i > Len(matrix) THEN <<>> ELSE encodeRow(matrix[i]) \o encodeRows(matrix, i + 1)

\* TreeNonces.Encode, TreePartialSigs.Encode: the number of rows, then the rows
encodeMatrix(matrix) == U32(Len(matrix)) \o encodeRows(matrix, 1)

\* The reader of the decoder: the bytes and the position of the next one
readU32(buf, pos) ==
    IF pos + 3 > Len(buf) THEN [err |-> "EOF", value |-> 0, pos |-> pos]
    ELSE [err |-> "", pos |-> pos + 4,
          value |-> buf[pos] + 256 * buf[pos + 1] + 65536 * buf[pos + 2]
                    + 16777216 * buf[pos + 3]]

\* A position read back: nothing where the presence byte is 0
decodeCell(buf, pos, width) ==
    IF pos > Len(buf) THEN [err |-> "EOF", cell |-> NilCell, pos |-> pos]
    ELSE IF buf[pos] = 0 THEN [err |-> "", cell |-> NilCell, pos |-> pos + 1]
    ELSE IF pos + width > Len(buf) THEN [err |-> "EOF", cell |-> NilCell, pos |-> pos]
    ELSE [err |-> "", cell |-> SubSeq(buf, pos + 1, pos + width), pos |-> pos + 1 + width]

\* The positions of a row still to read, appended to the ones read
RECURSIVE decodeCells(_, _, _, _, _)
decodeCells(buf, pos, width, left, row) ==
    IF left = 0 THEN [err |-> "", row |-> row, pos |-> pos]
    ELSE LET c == decodeCell(buf, pos, width)
         IN  IF c.err # "" THEN [err |-> c.err, row |-> row, pos |-> pos]
             ELSE decodeCells(buf, c.pos, width, left - 1, Append(row, c.cell))

RECURSIVE decodeRows(_, _, _, _, _)
decodeRows(buf, pos, width, left, matrix) ==
    IF left = 0 THEN [err |-> "", matrix |-> matrix]
    ELSE LET n == readU32(buf, pos)
             r == decodeCells(buf, n.pos, width, n.value, <<>>)
         IN  IF n.err # "" THEN [err |-> n.err, matrix |-> <<>>]
             ELSE IF r.err # "" THEN [err |-> r.err, matrix |-> <<>>]
             ELSE decodeRows(buf, r.pos, width, left - 1, Append(matrix, r.row))

\* DecodeNonces, DecodeSignatures
decodeMatrix(buf, width) ==
    LET n == readU32(buf, 1)
    IN  IF n.err # "" THEN [err |-> n.err, matrix |-> <<>>]
        ELSE decodeRows(buf, n.pos, width, n.value, <<>>)

NotEncoded == <<>>
NotDecoded == [err |-> "none", matrix |-> <<>>]

\* session.GetNonces, session.Sign: a signer session produces its matrix
Produce(kind, matrix) ==
    /\ treeMatrix.cells = <<>> /\ encodedMatrix = NotEncoded
    /\ treeMatrix' = [kind |-> kind, cells |-> matrix]
    /\ encodedMatrix' = NotEncoded
    /\ decodedMatrix' = NotDecoded
    /\ UNCHANGED <<queueVars, noteVars, ledgerVars, forfeitVars, roundVars, sweepVars,
                   scanVars, cltvVars, signingVars, lockVars, raceVars>>

Encode ==
    /\ encodedMatrix = NotEncoded
    /\ encodedMatrix' = encodeMatrix(treeMatrix.cells)
    /\ UNCHANGED <<treeMatrix, decodedMatrix, queueVars, noteVars, ledgerVars, forfeitVars,
                   roundVars, sweepVars, scanVars, cltvVars, signingVars, lockVars,
                   raceVars>>

Decode ==
    /\ encodedMatrix # NotEncoded
    /\ decodedMatrix = NotDecoded
    /\ decodedMatrix' = decodeMatrix(encodedMatrix, CellWidth[treeMatrix.kind])
    /\ UNCHANGED <<treeMatrix, encodedMatrix, queueVars, noteVars, ledgerVars, forfeitVars,
                   roundVars, sweepVars, scanVars, cltvVars, signingVars, lockVars,
                   raceVars>>

(***************************************************************************)
(* The MuSig2 signing of the VTXO tree                                     *)
(*                                                                         *)
(* The curve is the additive group of the integers modulo GroupOrder with  *)
(* generator 1, so that a public key is its private key times 1 and the    *)
(* equations of key aggregation, nonce combination, partial signing and    *)
(* Schnorr verification are the ones of the protocol; the hashes are fixed *)
(* functions into the group.                                               *)
(***************************************************************************)
GroupOrder == 11
Cosigners == <<"alice", "bob", "carol">>
PrivKeys == [alice |-> 2, bob |-> 3, carol |-> 7, server |-> 5]
PubKey(signer) == PrivKeys[signer] % GroupOrder
SigningTypes == {"SignAll", "SignBranch"}
NonceSeeds == {1, 2}

\* The signing types of the receivers of a batch, in the batch's order
SigningBatches == UNION {[1..n -> SigningTypes] : n \in 1..MaxReceivers}

\* The sum in the group of the values of a function
RECURSIVE SumFn(_)
SumFn(f) ==
    IF DOMAIN f = {} THEN 0
    ELSE LET x == CHOOSE y \in DOMAIN f : TRUE
         IN  (f[x] + SumFn([y \in DOMAIN f \ {x} |-> f[y]])) % GroupOrder

\* The nodes of the balanced, left-heavy binary tree over the receivers
\* lo..hi, each node named by the receivers beneath it
RECURSIVE BuildNodes(_, _)
BuildNodes(lo, hi) ==
    IF lo = hi THEN {{lo}}
    ELSE LET mid == lo + (hi - lo) \div 2
         IN  {lo..hi} \cup BuildNodes(lo, mid) \cup BuildNodes(mid + 1, hi)

VtxoTreeNodes(receivers) == BuildNodes(1, Len(receivers))

\* The signers of a node: the server, the cosigners of the receivers
\* beneath the node, and the cosigners of the SignAll receivers
NodeSigners(receivers, node) ==
    {"server"} \cup {Cosigners[i] : i \in node}
    \cup {Cosigners[i] : i \in {j \in 1..Len(receivers) : receivers[j] = "SignAll"}}

AllSigners(receivers) == {"server"} \cup {Cosigners[i] : i \in 1..Len(receivers)}

\* MuSig2 key aggregation and the taproot tweak by the sweep closure
KeyCoefficient(signers, signer) ==
    (1 + PubKey(signer) + SumFn([s \in signers |-> PubKey(s)])) % GroupOrder
AggregatedKey(signers) ==
    SumFn([s \in signers |-> KeyCoefficient(signers, s) * PubKey(s)])
Tweak(signers) == (3 * AggregatedKey(signers) + 7) % GroupOrder
OutputKey(signers) == (AggregatedKey(signers) + Tweak(signers)) % GroupOrder

\* The message a node's signature commits to
Message(node) == SumFn([i \in node |-> i * i + 1])

\* The two secret nonces of a signer at a node, and its public nonces
SecretNonce(seed, signer, node, j) ==
    (seed * PrivKeys[signer] + j * Message(node) + j) % GroupOrder
PublicNonces(seed, signer, node) ==
    <<SecretNonce(seed, signer, node, 1), SecretNonce(seed, signer, node, 2)>>

\* SignerSession.GetNonces: a position per node, nothing where the signer
\* does not take part
GetNonces(session, treeSigners, signer) ==
    [node \in DOMAIN treeSigners |->
        IF signer \in treeSigners[node] THEN PublicNonces(session.seed, signer, node)
        ELSE NilCell]

\* The nonce a node's signature uses and the challenge of the signature
NonceCoefficient(agg, key, msg) == (agg[1] + 2 * agg[2] + key + msg + 1) % GroupOrder
FinalNonce(agg, key, msg) == (agg[1] + NonceCoefficient(agg, key, msg) * agg[2]) % GroupOrder
Challenge(R, key, msg) == (R + 2 * key + 3 * msg + 1) % GroupOrder

\* CoordinatorSession.AggregateNonces: node by node over the node's signers
AggregateNonces(treeSigners, nonces) ==
    IF \E node \in DOMAIN treeSigners : \E s \in treeSigners[node] :
           s \notin DOMAIN nonces \/ nonces[s][node] = NilCell
    THEN [err |-> "missing nonce", nonces |-> <<>>]
    ELSE [err |-> "",
          nonces |-> [node \in DOMAIN treeSigners |->
                         <<SumFn([s \in treeSigners[node] |-> nonces[s][node][1]]),
                           SumFn([s \in treeSigners[node] |-> nonces[s][node][2]])>>]]

\* SignerSession.Sign at one node
PartialSign(session, treeSigners, signer, node, agg) ==
    LET key == OutputKey(treeSigners[node])
        msg == Message(node)
        b == NonceCoefficient(agg[node], key, msg)
        e == Challenge(FinalNonce(agg[node], key, msg), key, msg)
    IN  (SecretNonce(session.seed, signer, node, 1)
         + b * SecretNonce(session.seed, signer, node, 2)
         + e * KeyCoefficient(treeSigners[node], signer) * PrivKeys[signer]) % GroupOrder

\* SignerSession.Sign: a partial signature where the signer gave a nonce; a
\* signer that is not honest returns other values
Sign(session, treeSigners, signer, agg, honest) ==
    [node \in DOMAIN treeSigners |->
        IF signer \notin treeSigners[node] THEN NilCell
        ELSE <<(PartialSign(session, treeSigners, signer, node, agg)
                + (IF honest THEN 0 ELSE 1)) % GroupOrder>>]

\* The coordinator's check of a partial signature, from public values only
PartialSigValid(treeSigners, nonces, signer, node, agg, sig) ==
    LET key == OutputKey(treeSigners[node])
        msg == Message(node)
        b == NonceCoefficient(agg[node], key, msg)
        e == Challenge(FinalNonce(agg[node], key, msg), key, msg)
    IN  sig # NilCell
        /\ sig[1] = (nonces[signer][node][1] + b * nonces[signer][node][2]
                     + e * KeyCoefficient(treeSigners[node], signer) * PubKey(signer))
                    % GroupOrder

\* A combination that leaves the taproot tweak out
CombineNoTweak(treeSigners, sigs, node, agg) ==
    SumFn([s \in treeSigners[node] |-> sigs[s][node][1]])

\* The Schnorr signature's s of a node: the partial signatures and the tweak
Combine(treeSigners, sigs, node, agg) ==
    LET key == OutputKey(treeSigners[node])
        msg == Message(node)
        e == Challenge(FinalNonce(agg[node], key, msg), key, msg)
    IN  (SumFn([s \in treeSigners[node] |-> sigs[s][node][1]])
         + e * Tweak(treeSigners[node])) % GroupOrder

\* CoordinatorSession.SignTree: the tree with a signature (R, s) per node
SignTree(treeSigners, nonces, sigs, agg) ==
    IF \E node \in DOMAIN treeSigners : \E s \in treeSigners[node] : s \notin DOMAIN sigs
    THEN [err |-> "missing signature", sigs |-> <<>>]
    ELSE IF \E node \in DOMAIN treeSigners : \E s \in treeSigners[node] :
                ~PartialSigValid(treeSigners, nonces, s, node, agg, sigs[s][node])
    THEN [err |-> "invalid partial signature", sigs |-> <<>>]
    ELSE [err |-> "",
          sigs |-> [node \in DOMAIN treeSigners |->
                       <<FinalNonce(agg[node], OutputKey(treeSigners[node]), Message(node)),
                         Combine(treeSigners, sigs, node, agg)>>]]

\* ValidateTreeSigs: every node's signature verifies under the key of the
\* output it spends, which the tree builder derives from the receivers
ValidateTreeSigs(receivers, tree) ==
    \A node \in VtxoTreeNodes(receivers) :
        LET key == OutputKey(NodeSigners(receivers, node))
            R == tree[node][1]
        IN  tree[node][2] = (R + Challenge(R, key, Message(node)) * key) % GroupOrder

\* The signers per node, as the coordinator and the signer sessions have them
TreeSigners(receivers) ==
    [node \in VtxoTreeNodes(receivers) |-> NodeSigners(receivers, node)]

NoSession == [receivers |-> <<>>, seed |-> 0]
NotAggregated == [err |-> "none", nonces |-> <<>>]
NotSigned == [err |-> "none", sigs |-> <<>>]

\* NewTreeCoordinatorSession and the signers' Init on the tree of a batch
NewTreeCoordinatorSession(receivers, seed) ==
    /\ sigBatch = NoSession
    /\ sigBatch' = [receivers |-> receivers, seed |-> seed]
    /\ UNCHANGED <<coordNonces, aggregatedNonces, coordSigs, signedTree, treeValid,
                   queueVars, noteVars, ledgerVars, forfeitVars, roundVars, sweepVars,
                   scanVars, cltvVars, musigVars, lockVars, raceVars>>

\* coordinator.AddNonce(pubkey, session.GetNonces())
AddNonce(signer) ==
    /\ sigBatch # NoSession
    /\ signer \in AllSigners(sigBatch.receivers)
    /\ signer \notin DOMAIN coordNonces
    /\ aggregatedNonces.err # ""
    /\ coordNonces' = coordNonces
           @@ (signer :> GetNonces(sigBatch, TreeSigners(sigBatch.receivers), signer))
    /\ UNCHANGED <<sigBatch, aggregatedNonces, coordSigs, signedTree, treeValid,
                   queueVars, noteVars, ledgerVars, forfeitVars, roundVars, sweepVars,
                   scanVars, cltvVars, musigVars, lockVars, raceVars>>

\* coordinator.AggregateNonces(), then session.SetAggregatedNonces
AggregateNoncesCall ==
    /\ sigBatch # NoSession
    /\ aggregatedNonces.err # ""
    /\ aggregatedNonces' = AggregateNonces(TreeSigners(sigBatch.receivers), coordNonces)
    /\ UNCHANGED <<sigBatch, coordNonces, coordSigs, signedTree, treeValid,
                   queueVars, noteVars, ledgerVars, forfeitVars, roundVars, sweepVars,
                   scanVars, cltvVars, musigVars, lockVars, raceVars>>

\* coordinator.AddSignatures(pubkey, session.Sign())
AddSignatures(signer, honest) ==
    /\ aggregatedNonces.err = ""
    /\ signer \in AllSigners(sigBatch.receivers)
    /\ signer \notin DOMAIN coordSigs
    /\ signedTree = NotSigned
    /\ coordSigs' = coordSigs
           @@ (signer :> Sign(sigBatch, TreeSigners(sigBatch.receivers), signer,
                              aggregatedNonces.nonces, honest))
    /\ UNCHANGED <<sigBatch, coordNonces, aggregatedNonces, signedTree, treeValid,
                   queueVars, noteVars, ledgerVars, forfeitVars, roundVars, sweepVars,
                   scanVars, cltvVars, musigVars, lockVars, raceVars>>

\* coordinator.SignTree()
SignTreeCall ==
    /\ aggregatedNonces.err = ""
    /\ signedTree = NotSigned
    /\ signedTree' = SignTree(TreeSigners(sigBatch.receivers), coordNonces, coordSigs,
                              aggregatedNonces.nonces)
    /\ UNCHANGED <<sigBatch, coordNonces, aggregatedNonces, coordSigs, treeValid,
                   queueVars, noteVars, ledgerVars, forfeitVars, roundVars, sweepVars,
                   scanVars, cltvVars, musigVars, lockVars, raceVars>>

\* tree.ValidateTreeSigs(sweepRoot, sharedOutAmount, signedTree)
ValidateTreeSigsCall ==
    /\ signedTree.err = ""
    /\ treeValid = "unchecked"
    /\ treeValid' = IF ValidateTreeSigs(sigBatch.receivers, signedTree.sigs)
                    THEN "valid" ELSE "invalid"
    /\ UNCHANGED <<sigBatch, coordNonces, aggregatedNonces, coordSigs, signedTree,
                   queueVars, noteVars, ledgerVars, forfeitVars, roundVars, sweepVars,
                   scanVars, cltvVars, musigVars, lockVars, raceVars>>

(***************************************************************************)
(* txRequestsQueue under concurrent callers                                *)
(*                                                                         *)
(* Each goroutine takes the queue's lock, runs the body of its method in   *)
(* steps (what it reads first, then each write to the map) and unlocks on  *)
(* return.                                                                 *)
(***************************************************************************)
Threads == {"t1", "t2"}

\* view(id): the request's id, inputs and receivers, if it is queued
view(id) ==
    IF id \in DOMAIN requests
    THEN {[Id |-> requests[id].Id, Inputs |-> requests[id].Inputs,
           Receivers |-> requests[id].Receivers]}
    ELSE {}

\* viewAll(ids): copies of the queued requests, of all if ids is empty
viewAll(ids) ==
    {requests[id] : id \in {i \in DOMAIN requests :
                               Len(ids) = 0 \/ \E k \in 1..Len(ids) : ids[k] = i}}

QueueCall(op, request, notes, num, ids) ==
    [op |-> op, request |-> request, notes |-> notes, num |-> num, ids |-> ids]
Request(id, inputs, receivers) == [Id |-> id, Inputs |-> inputs, Receivers |-> receivers]

\* The calls the goroutines make
QueueCalls ==
    {QueueCall("push", Request("r1", <<vA>>, <<rcv1>>), <<>>, 0, <<>>),
     QueueCall("push", Request("r2", <<vA>>, <<rcv1>>), <<>>, 0, <<>>),
     QueueCall("pushWithNotes", Request("r2", <<>>, <<rcv1>>), <<nA>>, 0, <<>>),
     QueueCall("update", Request("r1", <<>>, <<>>), <<>>, 0, <<>>),
     QueueCall("updatePingTimestamp", Request("r2", <<>>, <<>>), <<>>, 0, <<>>),
     QueueCall("pop", Request("r1", <<>>, <<>>), <<>>, -1, <<>>),
     QueueCall("pop", Request("r1", <<>>, <<>>), <<>>, 1, <<>>),
     QueueCall("delete", Request("r1", <<>>, <<>>), <<>>, 0, <<"r1", "r2">>),
     QueueCall("len", Request("r1", <<>>, <<>>), <<>>, 0, <<>>),
     QueueCall("view", Request("r1", <<>>, <<>>), <<>>, 0, <<>>),
     QueueCall("viewAll", Request("r1", <<>>, <<>>), <<>>, 0, <<>>)}

\* The methods that take the read lock
ReadOps == {"len", "view", "viewAll"}

Idle == [pc |-> "idle", call |-> QueueCall("none", Request("r1", <<>>, <<>>), <<>>, 0, <<>>),
         local |-> <<>>, result |-> <<>>, expect |-> {}]

\* A lock that lets every writer in
canLockAlways(l) == TRUE

\* m.lock.Lock() returns when no goroutine holds the lock
canLock(l) == l.writers = {} /\ l.readers = {}

\* m.lock.RLock() returns when no goroutine holds the lock for writing
canRLock(l) == l.writers = {}

Outcome(reqs, result) == [requests |-> reqs, result |-> result]

\* The outcomes of a call that runs alone on the queue as it is now
Alone(call) ==
    CASE call.op = "push" ->
            {Outcome(afterPush(call.request, <<>>, <<>>, Nil),
                     pushErr(call.request, <<>>, <<>>))}
      [] call.op = "pushWithNotes" ->
            {Outcome(afterPushWithNotes(call.request, call.notes),
                     pushWithNotesErr(call.request, call.notes))}
      [] call.op = "update" ->
            {Outcome(afterUpdate(call.request, Nil), updateErr(call.request))}
      [] call.op = "updatePingTimestamp" ->
            {Outcome(afterUpdatePingTimestamp(requests, call.request.Id, now),
                     updatePingTimestampErr(requests, call.request.Id))}
      [] call.op = "pop" ->
            {Outcome(afterPop(popSelected(call.num, byTime)), popSelected(call.num, byTime)) :
                byTime \in requestsByTime}
      [] call.op = "delete" ->
            {Outcome(Restrict(requests,
                              DOMAIN requests \ {call.ids[k] : k \in 1..Len(call.ids)}), "")}
      [] call.op = "len" -> {Outcome(requests, len)}
      [] call.op = "view" -> {Outcome(requests, view(call.request.Id))}
      [] call.op = "viewAll" -> {Outcome(requests, viewAll(call.ids))}

\* A goroutine calls a method of the queue
Begin(t, call) ==
    /\ threads[t].pc = "idle"
    /\ threads' = [threads EXCEPT ![t] = [Idle EXCEPT !.pc = "lock", !.call = call]]
    /\ UNCHANGED <<qlock, lockedLast, queueVars, noteVars, ledgerVars, forfeitVars,
                   roundVars, sweepVars, scanVars, cltvVars, musigVars, signingVars,
                   raceVars>>

\* m.lock.Lock() or m.lock.RLock() returns
Lock(t) ==
    /\ threads[t].pc = "lock"
    /\ IF threads[t].call.op \in ReadOps
       THEN canRLock(qlock) /\ qlock' = [qlock EXCEPT !.readers = @ \cup {t}]
       ELSE canLock(qlock) /\ qlock' = [qlock EXCEPT !.writers = @ \cup {t}]
    /\ threads' = [threads EXCEPT ![t].pc = "body", ![t].expect = Alone(threads[t].call)]
    /\ UNCHANGED <<lockedLast, queueVars, noteVars, ledgerVars, forfeitVars, roundVars,
                   sweepVars, scanVars, cltvVars, musigVars, signingVars, raceVars>>

\* The method reads the queue: its checks, its lookup, pop's first loop
\* (which also deletes the expired requests), or all of a view
Body(t) ==
    /\ threads[t].pc = "body"
    /\ LET call == threads[t].call
       IN  CASE call.op = "push" ->
                   /\ threads' = [threads EXCEPT ![t].pc = "write",
                                      ![t].local = pushErr(call.request, <<>>, <<>>)]
                   /\ UNCHANGED requests
             [] call.op = "pushWithNotes" ->
                   /\ threads' = [threads EXCEPT ![t].pc = "write",
                                      ![t].local = pushWithNotesErr(call.request, call.notes)]
                   /\ UNCHANGED requests
             [] call.op = "update" ->
                   /\ threads' = [threads EXCEPT ![t].pc = "write",
                                      ![t].local = updateErr(call.request)]
                   /\ UNCHANGED requests
             [] call.op = "updatePingTimestamp" ->
                   /\ threads' = [threads EXCEPT ![t].pc = "write",
                                      ![t].local =
                                          updatePingTimestampErr(requests, call.request.Id)]
                   /\ UNCHANGED requests
             [] call.op = "pop" ->
                   \E byTime \in requestsByTime :
                       /\ threads' = [threads EXCEPT ![t].pc = "write",
                                          ![t].local = popSelected(call.num, byTime),
                                          ![t].result = popSelected(call.num, byTime)]
                       /\ requests' = Restrict(requests, DOMAIN requests \ expired)
             [] call.op = "delete" ->
                   /\ threads' = [threads EXCEPT ![t].pc = "write", ![t].local = call.ids,
                                                 ![t].result = ""]
                   /\ UNCHANGED requests
             [] call.op = "len" ->
                   /\ threads' = [threads EXCEPT ![t].pc = "unlock", ![t].result = len]
                   /\ UNCHANGED requests
             [] call.op = "view" ->
                   /\ threads' = [threads EXCEPT ![t].pc = "unlock",
                                                 ![t].result = view(call.request.Id)]
                   /\ UNCHANGED requests
             [] call.op = "viewAll" ->
                   /\ threads' = [threads EXCEPT ![t].pc = "unlock",
                                                 ![t].result = viewAll(call.ids)]
                   /\ UNCHANGED requests
    /\ UNCHANGED <<qlock, lockedLast, now, last, noteVars, ledgerVars, forfeitVars,
                   roundVars, sweepVars, scanVars, cltvVars, musigVars, signingVars,
                   raceVars>>

\* The method writes to the map: the new entry, the new contents or ping
\* time of the entry it looked up, or one delete of pop's or delete's loop
Write(t) ==
    /\ threads[t].pc = "write"
    /\ LET call == threads[t].call
           local == threads[t].local
           id == call.request.Id
           returns(result) == [threads EXCEPT ![t].pc = "unlock", ![t].result = result]
       IN  CASE call.op = "push" ->
                   /\ threads' = returns(local)
                   /\ requests' =
                          IF local # "" THEN requests
                          ELSE (id :> timedTxRequest(call.request, <<>>, <<>>, now, now,
                                                     Nil, <<>>)) @@ requests
             [] call.op = "pushWithNotes" ->
                   /\ threads' = returns(local)
                   /\ requests' =
                          IF local # "" THEN requests
                          ELSE (id :> timedTxRequest(call.request, <<>>, call.notes, now,
                                                     ZeroTime, Nil, <<>>)) @@ requests
             [] call.op = "update" ->
                   /\ threads' = returns(local)
                   /\ requests' =
                          IF local # "" \/ id \notin DOMAIN requests THEN requests
                          ELSE [requests EXCEPT ![id].Inputs = call.request.Inputs,
                                                ![id].Receivers = call.request.Receivers]
             [] call.op = "updatePingTimestamp" ->
                   /\ threads' = returns(local)
                   /\ requests' =
                          IF local # "" \/ id \notin DOMAIN requests THEN requests
                          ELSE [requests EXCEPT ![id].pingTimestamp = now]
             [] call.op = "pop" ->
                   IF local = <<>> THEN
                       /\ threads' = [threads EXCEPT ![t].pc = "unlock"]
                       /\ UNCHANGED requests
                   ELSE
                       /\ threads' = [threads EXCEPT ![t].local = Tail(local)]
                       /\ requests' = Restrict(requests, DOMAIN requests \ {Head(local).Id})
             [] call.op = "delete" ->
                   IF local = <<>> THEN
                       /\ threads' = [threads EXCEPT ![t].pc = "unlock"]
                       /\ UNCHANGED requests
                   ELSE
                       /\ threads' = [threads EXCEPT ![t].local = Tail(local)]
                       /\ requests' = Restrict(requests, DOMAIN requests \ {Head(local)})
    /\ UNCHANGED <<qlock, lockedLast, now, last, noteVars, ledgerVars, forfeitVars,
                   roundVars, sweepVars, scanVars, cltvVars, musigVars, signingVars,
                   raceVars>>

\* The deferred Unlock() or RUnlock() runs and the method returns
Release(t) ==
    /\ threads[t].pc = "unlock"
    /\ qlock' = [writers |-> qlock.writers \ {t}, readers |-> qlock.readers \ {t}]
    /\ lockedLast' = [op |-> threads[t].call.op, result |-> threads[t].result,
                      after |-> requests, expect |-> threads[t].expect]
    /\ threads' = [threads EXCEPT ![t] = Idle]
    /\ UNCHANGED <<queueVars, noteVars, ledgerVars, forfeitVars, roundVars, sweepVars,
                   scanVars, cltvVars, musigVars, signingVars, raceVars>>

(***************************************************************************)
(* forfeitTxsMap under its callers' goroutines                             *)
(*                                                                         *)
(* The round coordinator calls init, allSigned, pop and reset one after    *)
(* another; a client's submission calls sign from its own goroutine.       *)
(***************************************************************************)
Goroutines == {"coordinator", "client"}
RaceTrees == {ConnectorTree(<<"x", "y">>)}
RaceSignLists == {<<t>> : t \in SubmittedTxs}

ForfeitCall(pc, op, tree, requestList, txs, torn) ==
    [pc |-> pc, op |-> op, tree |-> tree, requestList |-> requestList, txs |-> txs,
     torn |-> torn]
NoForfeitCall == ForfeitCall("idle", "none", <<>>, <<>>, <<>>, FALSE)

\* The methods that write the collector's maps, and the ones that read them
WritingOps == {"init", "sign", "reset", "pop.reset"}
Writing(g) == goroutines[g].pc = "locked" /\ goroutines[g].op \in WritingOps
Reading(g) ==
    \/ goroutines[g].pc = "reading"
    \/ goroutines[g].pc = "locked" /\ goroutines[g].op = "pop"

\* The coordinator calls init, pop or reset, a client calls sign with txs:
\* the method goes for the lock
CallForfeit(g, op, tree, requestList, txs) ==
    /\ goroutines[g].pc = "idle"
    /\ IF g = "client" THEN op = "sign" /\ Len(txs) > 0 ELSE op \in {"init", "pop", "reset"}
    /\ goroutines' = [goroutines EXCEPT
                         ![g] = ForfeitCall("lock", op, tree, requestList, txs, FALSE)]
    /\ UNCHANGED <<flock, queueVars, noteVars, ledgerVars, forfeitVars, roundVars, sweepVars,
                   scanVars, cltvVars, musigVars, signingVars, lockVars>>

\* m.lock.Lock() returns
LockForfeit(g) ==
    /\ goroutines[g].pc = "lock"
    /\ flock = Nil
    /\ flock' = g
    /\ goroutines' =
           [h \in Goroutines |->
               IF h = g THEN [goroutines[g] EXCEPT !.pc = "locked"]
               ELSE IF goroutines[h].pc = "reading" /\ goroutines[g].op \in WritingOps
               THEN [goroutines[h] EXCEPT !.torn = TRUE]
               ELSE goroutines[h]]
    /\ UNCHANGED <<queueVars, noteVars, ledgerVars, forfeitVars, roundVars, sweepVars,
                   scanVars, cltvVars, musigVars, signingVars, lockVars>>

\* The method has run under the lock and m.lock.Unlock() runs; pop then
\* calls reset, which goes for the lock again
UnlockForfeit(g) ==
    /\ goroutines[g].pc = "locked"
    /\ flock' = Nil
    /\ LET call == goroutines[g]
       IN  CASE call.op = "init" -> init(call.tree, call.requestList) /\ UNCHANGED popping
             [] call.op = "sign" -> signLocked(call.txs)
             [] call.op = "reset" -> resetLocked
             [] call.op = "pop" -> popLocked
             [] call.op = "pop.reset" -> popReset
    /\ goroutines' = [goroutines EXCEPT
                         ![g] = IF goroutines[g].op = "pop"
                                THEN [goroutines[g] EXCEPT !.pc = "lock", !.op = "pop.reset"]
                                ELSE NoForfeitCall]
    /\ UNCHANGED <<queueVars, noteVars, ledgerVars, roundVars, sweepVars, scanVars, cltvVars,
                   musigVars, signingVars, lockVars>>

\* allSigned starts its loop over m.forfeitTxs, without the lock
BeginAllSigned ==
    /\ goroutines["coordinator"].pc = "idle"
    /\ goroutines' =
           [goroutines EXCEPT
               !["coordinator"] =
                   ForfeitCall("reading", "allSigned", <<>>, <<>>, <<>>,
                               \E g \in Goroutines : Writing(g))]
    /\ UNCHANGED <<flock, queueVars, noteVars, ledgerVars, forfeitVars, roundVars, sweepVars,
                   scanVars, cltvVars, musigVars, signingVars, lockVars>>

\* What an allSigned returns: what the map holds, or, when a write to the map
\* ran during its loop, either answer or the runtime's fatal error
allSignedResults(torn) ==
    IF torn THEN {"true", "false", "fatal error"}
    ELSE {IF allSigned THEN "true" ELSE "false"}

\* allSigned returns
EndAllSigned ==
    /\ goroutines["coordinator"].pc = "reading"
    /\ \E res \in allSignedResults(goroutines["coordinator"].torn) :
           forfeitLast' = ForfeitResult("allSigned", res, {})
    /\ goroutines' = [goroutines EXCEPT !["coordinator"] = NoForfeitCall]
    /\ UNCHANGED <<flock, forfeitTxs, connectors, connectorsIndex, vtxos, popping, audit,
                   queueVars, noteVars, ledgerVars, roundVars, sweepVars, scanVars,
                   cltvVars, musigVars, signingVars, lockVars>>

(***************************************************************************)
(* Specifications                                                          *)
(***************************************************************************)
InitQueue ==
    /\ requests = <<>>
    /\ now = 0
    /\ last = Result("new", "", <<>>, {})

InitNotes ==
    /\ noteSet = {}
    /\ credited = [k \in NoteIds |-> 0]
    /\ noteLast = NoteResult("new", {}, "", 0, FALSE)

InitLedger ==
    /\ spentCount = [v \in Vtxos |-> 0]
    /\ minted = {}
    /\ ledgerLock = Nil
    /\ calls = [c \in Callers |-> Call("idle", {}, FALSE, "")]

\* newForfeitTxsMap
InitForfeit ==
    /\ forfeitTxs = <<>>
    /\ connectors = <<>>
    /\ connectorsIndex = <<>>
    /\ vtxos = <<>>
    /\ popping = NoPop
    /\ forfeitLast = ForfeitResult("new", "", {})
    /\ audit = [registered |-> {}, recorded |-> {}]

\* newOutpointMap, and the coordinator before its first round
InitRound ==
    /\ phase = "Idle"
    /\ round = 1
    /\ batch = <<>>
    /\ outpoints = {}
    /\ roundForfeits = NoRoundForfeits
    /\ redeemLast = RedeemResult(<<>>, "", <<>>)

\* A round is Done: none of the txs of its VTXO tree is on-chain
InitSweeper ==
    /\ onchain = {}
    /\ spentVtxos = {}
    /\ owed = {}
    /\ reacted = {}
    /\ broadcastForfeits = {}

InitScan ==
    /\ chain = [txid \in ChainTxids |-> Unconfirmed]
    /\ tip = 1
    /\ scanLast = NoScan

InitCltv ==
    /\ cltvVtxos = [vtxo \in CltvVtxos |-> [locktime |-> NotMinted, spent |-> FALSE]]
    /\ refused = {}
    /\ cltvLast = CltvResult("new", "c1", 0, TRUE, "")

InitEncoding ==
    /\ treeMatrix = [kind |-> "nonces", cells |-> <<>>]
    /\ encodedMatrix = NotEncoded
    /\ decodedMatrix = NotDecoded

InitSigning ==
    /\ sigBatch = NoSession
    /\ coordNonces = <<>>
    /\ aggregatedNonces = NotAggregated
    /\ coordSigs = <<>>
    /\ signedTree = NotSigned
    /\ treeValid = "unchecked"

InitLocked ==
    /\ qlock = [writers |-> {}, readers |-> {}]
    /\ threads = [t \in Threads |-> Idle]
    /\ lockedLast = [op |-> "new", result |-> <<>>, after |-> <<>>, expect |-> {}]

InitRace ==
    /\ flock = Nil
    /\ goroutines = [g \in Goroutines |-> NoForfeitCall]

Init ==
    /\ InitQueue /\ InitNotes /\ InitLedger /\ InitForfeit /\ InitRound /\ InitSweeper
    /\ InitScan /\ InitCltv /\ InitEncoding /\ InitSigning /\ InitLocked
    /\ InitRace

\* The queue and the clock
Next ==
    \/ \E r \in TxRequests(ClockInputLists, ClockReceiverLists) : push(r, <<>>, <<>>, Nil)
    \/ \E r \in TxRequests(ClockInputLists, ClockReceiverLists), ns \in ClockNoteLists :
          pushWithNotes(r, ns)
    \/ \E r \in TxRequests(ClockInputLists, ClockReceiverLists) : update(r, Nil)
    \/ \E id \in Ids : updatePingTimestamp(id)
    \/ \E n \in -1..MaxPopN : pop(n)
    \/ \E ids \in SUBSET Ids : delete(ids)
    \/ deleteAll
    \/ Tick
    \/ Pause

Spec == Init /\ [][Next]_vars

\* The queue at one instant, with every kind of input
NextContent ==
    \/ \E r \in TxRequests(InputLists, ReceiverLists), b \in BoardingLists,
          c \in RecoveredLists, m \in Musig2Values : push(r, b, c, m)
    \/ \E r \in TxRequests(InputLists, ReceiverLists), ns \in NoteLists : pushWithNotes(r, ns)
    \/ \E r \in TxRequests(InputLists, ReceiverLists), m \in Musig2Values : update(r, m)
    \/ \E id \in Ids : updatePingTimestamp(id)
    \/ \E n \in -1..MaxPopN : pop(n)
    \/ \E ids \in SUBSET Ids : delete(ids)
    \/ deleteAll

SpecContent == Init /\ [][NextContent]_vars

\* The queue at one instant, with callers that repeat an input or a note
NextRepeats ==
    \/ \E r \in TxRequests(RepeatInputLists, ReceiverLists), b \in RepeatBoardingLists,
          c \in RepeatRecoveredLists : push(r, b, c, Nil)
    \/ \E r \in TxRequests(RepeatInputLists, ReceiverLists), ns \in RepeatNoteLists :
          pushWithNotes(r, ns)
    \/ \E r \in TxRequests(RepeatInputLists, ReceiverLists) : update(r, Nil)
    \/ \E n \in -1..MaxPopN : pop(n)
    \/ deleteAll

SpecRepeats == Init /\ [][NextRepeats]_vars

\* The queue of requests with MuSig2 data, updated as the clock runs
NextUpdate ==
    \/ \E r \in TxRequests(UpdateInputLists, UpdateReceiverLists), m \in StoredMusig2 :
          push(r, <<bA>>, <<>>, m)
    \/ \E r \in TxRequests(UpdateInputLists, UpdateReceiverLists) : pushWithNotes(r, <<nA>>)
    \/ \E r \in TxRequests(UpdateInputLists, UpdateReceiverLists), m \in UpdateMusig2 :
          update(r, m)
    \/ \E n \in {-1, 1} : pop(n)
    \/ Tick

SpecUpdate == Init /\ [][NextUpdate]_vars

\* The note repository and the redemption of notes
NextNotes ==
    \/ \E k \in NoteIds, outs \in InsertOutcomes : Add(k, outs)
    \/ \E k \in NoteIds : ContainsCall(k)
    \/ \E ks \in SUBSET NoteIds \ {{}}, outs \in [NoteIds -> InsertOutcomes] :
          RedeemNotes(ks, outs)

SpecNotes == Init /\ [][NextNotes]_vars

\* Concurrent SpendAndMint calls on the ledger
NextLedger ==
    \/ \E c \in Callers, spend \in SUBSET Vtxos \ {{}} : Submit(c, spend)
    \/ \E c \in Callers : Acquire(c)
    \/ \E c \in Callers : Check(c)
    \/ \E c \in Callers : Commit(c)

SpecLedger == Init /\ [][NextLedger]_vars

\* The forfeit collector
NextForfeit ==
    \/ \E tree \in ConnectorTrees, requestList \in Batches : InitCall(tree, requestList)
    \/ \E txs \in SignLists : sign(txs)
    \/ reset
    \/ PopLockedCall
    \/ PopResetCall
    \/ allSignedCall

SpecForfeit == Init /\ [][NextForfeit]_vars

\* The rounds of the coordinator, the forfeit submissions and the redeem
\* submissions of the clients
NextRoundStep ==
    \/ \E requestList \in RoundBatches : StartRegistration(requestList)
    \/ StartTreeSigning
    \/ \E tree \in ConnectorTrees : StartForfeitCollection(tree)
    \/ \E txs \in SignLists : sign(txs)
    \/ StartFinalization
    \/ FinalizationPop
    \/ FinalizationPopReturn
    \/ Finish
    \/ Fail
    \/ NextRound
    \/ \E inputs \in RedeemInputLists : SubmitRedeemTx(inputs)

SpecRound == Init /\ [][NextRoundStep]_vars

\* The unrolls of a VTXO tree and the sweeper's reaction; the sweeper is
\* subscribed to the explorer and reacts to every tx it is notified of
NextSweeper ==
    \/ \E leaf \in LeafTxids : MarkSpent(leaf)
    \/ \E txid \in InternalTxids \cup LeafTxids : Unroll(txid)
    \/ \E txid \in InternalTxids : ReactToFraud(txid)

SpecSweeper ==
    Init /\ [][NextSweeper]_vars /\ \A txid \in InternalTxids : WF_vars(ReactToFraud(txid))

\* The chain confirms the round tx and the txs of the tree while the sweeper
\* searches the tree for sweepable outputs
NextScan ==
    \/ Mine
    \/ \E txid \in ChainTxids : Confirm(txid)
    \/ \E schedulerUnit \in SchedulerUnits, faulty \in FaultySets : Scan(schedulerUnit, faulty)

SpecScan == Init /\ [][NextScan]_vars

\* Blocks are mined while VTXOs are sent to CLTV closures and redeemed
NextCltv ==
    \/ Mine
    \/ \E vtxo \in CltvVtxos, cltvBlocks \in 1..MaxCltvBlocks : SendToCLTV(vtxo, cltvBlocks)
    \/ \E vtxo \in CltvVtxos, checksPass \in BOOLEAN : SubmitCltvRedeemTx(vtxo, checksPass)

SpecCltv == Init /\ [][NextCltv]_vars

\* Signer sessions produce matrices, which are encoded and decoded
NextEncoding ==
    \/ \E kind \in MatrixKinds : \E matrix \in Matrices(kind) : Produce(kind, matrix)
    \/ Encode
    \/ Decode

SpecEncoding == Init /\ [][NextEncoding]_vars

\* The signing of the VTXO tree of one batch
NextSigning ==
    \/ \E receivers \in SigningBatches, seed \in NonceSeeds :
          NewTreeCoordinatorSession(receivers, seed)
    \/ \E signer \in DOMAIN PrivKeys : AddNonce(signer)
    \/ AggregateNoncesCall
    \/ \E signer \in DOMAIN PrivKeys, honest \in BOOLEAN : AddSignatures(signer, honest)
    \/ SignTreeCall
    \/ ValidateTreeSigsCall

SpecSigning == Init /\ [][NextSigning]_vars

\* Goroutines calling the queue concurrently
NextLocked ==
    \/ \E t \in Threads, call \in QueueCalls : Begin(t, call)
    \/ \E t \in Threads : Lock(t)
    \/ \E t \in Threads : Body(t)
    \/ \E t \in Threads : Write(t)
    \/ \E t \in Threads : Release(t)

SpecLocked == Init /\ [][NextLocked]_vars

\* The coordinator's calls of the forfeit collector and a client's sign
NextRace ==
    \/ \E g \in Goroutines, op \in WritingOps \cup {"pop"}, tree \in RaceTrees,
          requestList \in RoundBatches, txs \in RaceSignLists :
          CallForfeit(g, op,
                      IF op = "init" THEN tree ELSE <<>>,
                      IF op = "init" THEN requestList ELSE <<>>,
                      IF op = "sign" THEN txs ELSE <<>>)
    \/ \E g \in Goroutines : LockForfeit(g)
    \/ \E g \in Goroutines : UnlockForfeit(g)
    \/ BeginAllSigned
    \/ EndAllSigned

SpecRace == Init /\ [][NextRace]_vars

(***************************************************************************)
(* Properties of the request queue                                         *)
(***************************************************************************)
OutpointsOf(s) == {<<s[i].Txid, s[i].VOut>> : i \in 1..Len(s)}
NoteIdsOf(s) == {s[i].ID : i \in 1..Len(s)}

\* The requests other than its own that share an input with a request, ...
SharesInput(inputs) ==
    \E id \in DOMAIN requests : OutpointsOf(inputs) \cap OutpointsOf(requests[id].Inputs) # {}
\* ... a boarding input, ...
SharesBoardingInput(boardingInputs) ==
    \E id \in DOMAIN requests :
        OutpointsOf(boardingInputs) \cap OutpointsOf(requests[id].boardingInputs) # {}
\* ... a recovered VTXO, ...
SharesRecoveredVtxo(recoveredVtxos) ==
    \E id \in DOMAIN requests :
        OutpointsOf(recoveredVtxos) \cap OutpointsOf(requests[id].recoveredVtxos) # {}
\* ... a note
SharesNote(notes) ==
    \E id \in DOMAIN requests : NoteIdsOf(notes) \cap NoteIdsOf(requests[id].notes) # {}

\* C1: in every reachable state of the queue no two distinct queued requests
\* share an input VTXO outpoint, a boarding-input outpoint or a note id.
C1_QueueUniqueness ==
    \A p, q \in DOMAIN requests : p # q =>
        /\ OutpointsOf(requests[p].Inputs) \cap OutpointsOf(requests[q].Inputs) = {}
        /\ OutpointsOf(requests[p].boardingInputs) \cap OutpointsOf(requests[q].boardingInputs) = {}
        /\ NoteIdsOf(requests[p].notes) \cap NoteIdsOf(requests[q].notes) = {}

\* C2: in every reachable state, a push whose input VTXOs, boarding inputs or
\* recovered VTXOs share an outpoint with those of a queued request returns an
\* error and leaves the queue as it is; a push without such a clash and with
\* a new id adds the request, pinged and born now, and changes no other entry.
C2_PushRejectsSharedOutpoints ==
    \A r \in TxRequests(InputLists, ReceiverLists), b \in BoardingLists,
       c \in RecoveredLists, m \in Musig2Values :
        LET clash == SharesInput(r.Inputs) \/ SharesBoardingInput(b) \/ SharesRecoveredVtxo(c)
            after == afterPush(r, b, c, m)
        IN  /\ clash => /\ pushErr(r, b, c) # ""
                        /\ after = requests
            /\ (~clash /\ r.Id \notin DOMAIN requests) =>
                    /\ pushErr(r, b, c) = ""
                    /\ DOMAIN after = DOMAIN requests \cup {r.Id}
                    /\ \A id \in DOMAIN requests : after[id] = requests[id]
                    /\ after[r.Id] = [Id |-> r.Id, Inputs |-> r.Inputs, Receivers |-> r.Receivers,
                                      boardingInputs |-> b, notes |-> <<>>, timestamp |-> now,
                                      pingTimestamp |-> now, musig2Data |-> m,
                                      recoveredVtxos |-> c]

\* A push has been rejected for an input, a boarding input and a recovered
\* VTXO that a queued request holds, and another has been accepted.
C2_Witness ==
    /\ last.op = "push"
    /\ last.err = "duplicated vtxo recovery"
    /\ \E id \in DOMAIN requests : /\ requests[id].recoveredVtxos # <<>>
                                    /\ requests[id].Inputs # <<>>

\* C3: in every reachable state, a pushWithNotes one of whose notes has the id
\* of a note of a queued request returns an error and leaves the queue as it is.
C3_PushWithNotesRejectsSharedNote ==
    \A r \in TxRequests(InputLists, ReceiverLists), ns \in NoteLists :
        SharesNote(ns) => /\ pushWithNotesErr(r, ns) # ""
                          /\ afterPushWithNotes(r, ns) = requests

\* A pushWithNotes with a new id has been rejected for a note a queued request holds.
C3_Witness ==
    /\ last.op = "pushWithNotes"
    /\ last.err = "duplicated note"
    /\ \E id \in DOMAIN requests : requests[id].notes # <<>>

\* The gap the claims speak of: the minutes since a request's last ping;
\* a request that was never pinged has none.
Pinged(p) == p.pingTimestamp >= 0
PingGap(p) == now - p.pingTimestamp

\* C6: every request a pop returns was pinged at most selectGapMinutes before the pop.
C6_PoppedPingedWithinSelectGap ==
    last.op = "pop" =>
        \A i \in 1..Len(last.selected) :
            /\ Pinged(last.selected[i])
            /\ PingGap(last.selected[i]) <= 1

\* A pop has returned a request pinged exactly a minute before and has left
\* in the queue a request with a receiver pinged two minutes before.
C6_Witness ==
    /\ last.op = "pop"
    /\ \E i \in 1..Len(last.selected) : PingGap(last.selected[i]) = 1
    /\ \E id \in DOMAIN requests : /\ requests[id].Receivers # <<>>
                                    /\ Pinged(requests[id])
                                    /\ PingGap(requests[id]) = 2

\* C7 as stated: after a pop no request pinged more than deleteGapMinutes
\* before the pop is left in the queue.
C7_NoStaleRequestAfterPop ==
    last.op = "pop" =>
        \A id \in DOMAIN requests : ~(Pinged(requests[id]) /\ PingGap(requests[id]) > 5)

\* C7 as amended: after a pop no request that has a receiver and was pinged
\* more than deleteGapMinutes before the pop, or never, is left in the queue.
C7_NoStaleReceiverRequestAfterPop ==
    last.op = "pop" =>
        \A id \in DOMAIN requests :
            requests[id].Receivers # <<>> =>
                /\ Pinged(requests[id])
                /\ PingGap(requests[id]) <= 5

\* A pop six minutes after the start has deleted a request and kept another,
\* pinged five minutes before.
C7_Witness ==
    /\ last.op = "pop"
    /\ last.deleted # {}
    /\ \E id \in DOMAIN requests : /\ requests[id].Receivers # <<>>
                                    /\ PingGap(requests[id]) = 5

\* C8: pop(n) returns the requests with a receiver pinged in the last minute
\* in the order of their birth, the earliest first: all k of them when n < 0
\* or n >= k, and otherwise n of them such that no request left behind was born before a returned one.
C8_PopFifoBoundedByN ==
    LET elig == {id \in DOMAIN requests :
                    /\ requests[id].Receivers # <<>>
                    /\ Pinged(requests[id])
                    /\ PingGap(requests[id]) <= 1}
        k == Cardinality(elig)
    IN  /\ requestsByTime # {}
        /\ \A n \in -1..MaxPopN, byTime \in requestsByTime :
              LET sel == popSelected(n, byTime)
                  ids == {sel[i].Id : i \in 1..Len(sel)}
              IN  /\ Len(sel) = IF n < 0 \/ n >= k THEN k ELSE n
                  /\ Cardinality(ids) = Len(sel)
                  /\ ids \subseteq elig
                  /\ \A i \in 1..Len(sel) : sel[i] = requests[sel[i].Id]
                  /\ \A i, j \in 1..Len(sel) : i < j => sel[i].timestamp <= sel[j].timestamp
                  /\ \A i \in 1..Len(sel), id \in elig \ ids :
                        sel[i].timestamp <= requests[id].timestamp
        /\ last.op = "pop" =>
              \A i, j \in 1..Len(last.selected) :
                  i < j => last.selected[i].timestamp <= last.selected[j].timestamp

\* A pop has returned one request and left a later one, as recently pinged, in the queue.
C8_Witness ==
    /\ last.op = "pop"
    /\ Len(last.selected) = 1
    /\ \E id \in DOMAIN requests : /\ requests[id].Receivers # <<>>
                                    /\ Pinged(requests[id])
                                    /\ PingGap(requests[id]) <= 1
                                    /\ requests[id].timestamp > last.selected[1].timestamp

\* The sum of all the inputs of a queued request, and of its receivers
InputsTotal(p) ==
    SumAmount(p.Inputs) + SumAmount(p.boardingInputs) + SumValue(p.notes)
    + SumAmount(p.recoveredVtxos)
ReceiversTotal(p) == SumAmount(p.Receivers)

C10_PoppedBalanced ==
    last.op = "pop" =>
        \A i \in 1..Len(last.selected) :
            InputsTotal(last.selected[i]) = ReceiversTotal(last.selected[i])

\* The clock values a later call of updatePingTimestamp can read
LaterTimes == now..(MaxClock + deleteGapMinutes)

\* C11: updatePingTimestamp(id) on a queued request returns no error and
\* changes only that request's pingTimestamp, which moves forward to the time
\* of the call; calling it again, at the same time or later, gives the queue
\* that the last call alone gives. On an id that is not queued it returns an
\* error and changes nothing, however often it is called.
C11_PingIdempotent ==
    \A id \in Ids :
        LET once == afterUpdatePingTimestamp(requests, id, now) IN
        IF id \in DOMAIN requests
        THEN /\ updatePingTimestampErr(requests, id) = ""
             /\ DOMAIN once = DOMAIN requests
             /\ \A other \in DOMAIN requests \ {id} : once[other] = requests[other]
             /\ \A f \in DOMAIN requests[id] \ {"pingTimestamp"} : once[id][f] = requests[id][f]
             /\ once[id].pingTimestamp = now
             /\ once[id].pingTimestamp >= requests[id].pingTimestamp
             /\ updatePingTimestampErr(once, id) = ""
             /\ \A t \in LaterTimes :
                    /\ afterUpdatePingTimestamp(once, id, t) = afterUpdatePingTimestamp(requests, id, t)
                    /\ afterUpdatePingTimestamp(afterUpdatePingTimestamp(once, id, t), id, t)
                          = afterUpdatePingTimestamp(requests, id, t)
        ELSE /\ updatePingTimestampErr(requests, id) # ""
             /\ once = requests
             /\ updatePingTimestampErr(once, id) # ""

\* Two requests are queued and one of them, pushed earlier, has just been pinged.
C11_Witness ==
    /\ last.op = "updatePingTimestamp"
    /\ last.err = ""
    /\ Cardinality(DOMAIN requests) = 2
    /\ \E id \in DOMAIN requests :
          /\ requests[id].pingTimestamp = now
          /\ requests[id].timestamp < now
          /\ \E other \in DOMAIN requests : requests[other].pingTimestamp < now

\* The ids of a sequence of requests
IdsOf(selected) == {selected[i].Id : i \in 1..Len(selected)}

\* The stale requests past deleteGapMinutes that pop looks at: they have a
\* receiver and were pinged more than deleteGapMinutes ago, or never.
StalePastDeleteGap ==
    {id \in DOMAIN requests :
        /\ requests[id].Receivers # <<>>
        /\ (Pinged(requests[id]) => PingGap(requests[id]) > deleteGapMinutes)}

\* What a pop(n) that sorts the eligible requests as byTime removes and keeps
PopFrame(n, byTime) ==
    LET sel == popSelected(n, byTime)
        after == afterPop(sel)
    IN  /\ DOMAIN requests \ DOMAIN after = IdsOf(sel) \cup StalePastDeleteGap
        /\ IdsOf(sel) \cap StalePastDeleteGap = {}
        /\ \A id \in DOMAIN after : after[id] = requests[id]
        /\ \A id \in DOMAIN requests \ IdsOf(sel) :
              (\/ requests[id].Receivers = <<>>
               \/ /\ Pinged(requests[id])
                  /\ PingGap(requests[id]) <= deleteGapMinutes)
              => id \in DOMAIN after

\* C28: pop removes exactly the requests it returns and the requests with a
\* receiver whose last ping is older than deleteGapMinutes; every other
\* request (eligible beyond n, pinged between selectGapMinutes and
\* deleteGapMinutes ago, or without receivers) stays queued as it was. The
\* requests a pop has returned are no longer queued, and an id that is not
\* queued becomes queued only by a push or pushWithNotes that returns no error,
\* so no request is returned by two pops without a push in between.
C28_PopRemovesOnlyReturnedAndStale ==
    /\ [](\A n \in -1..MaxPopN, byTime \in requestsByTime : PopFrame(n, byTime))
    /\ [](last.op = "pop" => IdsOf(last.selected) \cap DOMAIN requests = {})
    /\ [][\A id \in Ids :
             id \notin DOMAIN requests /\ id \in DOMAIN requests'
                 => last'.op \in {"push", "pushWithNotes"} /\ last'.err = ""]_vars

\* A pop bounded by n has returned the earlier of two eligible requests and
\* left the later one queued.
C28_Witness ==
    /\ last.op = "pop"
    /\ Len(last.selected) = 1
    /\ last.selected[1].Id \notin DOMAIN requests
    /\ \E id \in DOMAIN requests : /\ requests[id].Receivers # <<>>
                                    /\ Pinged(requests[id])
                                    /\ PingGap(requests[id]) <= selectGapMinutes

\* A pop has deleted a stale request and has left queued a request without
\* receivers that is as stale.
C28_WitnessStale ==
    /\ last.op = "pop"
    /\ last.deleted # {}
    /\ \E id \in DOMAIN requests : /\ requests[id].Receivers = <<>>
                                    /\ Pinged(requests[id])
                                    /\ PingGap(requests[id]) > deleteGapMinutes

\* C29: whatever n and whatever the pings, pop returns no request without
\* receivers, and len is the number of queued requests that have one.
C29_PopAndLenSkipRequestsWithoutReceivers ==
    /\ \A n \in -1..MaxPopN, byTime \in requestsByTime :
          \A i \in 1..Len(popSelected(n, byTime)) :
              popSelected(n, byTime)[i].Receivers # <<>>
    /\ last.op = "pop" => \A i \in 1..Len(last.selected) : last.selected[i].Receivers # <<>>
    /\ len = Cardinality({id \in DOMAIN requests : requests[id].Receivers # <<>>})
    /\ len = Cardinality(DOMAIN requests)
           - Cardinality({id \in DOMAIN requests : requests[id].Receivers = <<>>})

\* A pop has returned a request and has left the only other one, which has no
\* receivers and was pinged in the same minute; len is 0.
C29_Witness ==
    /\ last.op = "pop"
    /\ Len(last.selected) = 1
    /\ Cardinality(DOMAIN requests) = 1
    /\ \E id \in DOMAIN requests : /\ requests[id].Receivers = <<>>
                                    /\ Pinged(requests[id])
                                    /\ PingGap(requests[id]) = 0
    /\ len = 0

\* C30: the queue holds one request per id, stored under its own id; a push
\* or pushWithNotes of a request whose id is queued returns the duplicated
\* request error whatever else it carries, and leaves every entry of the
\* queue, the one of that id included, as it was.
C30_DuplicateIdRejected ==
    /\ [](\A id \in DOMAIN requests : requests[id].Id = id)
    /\ [](\A r \in TxRequests(InputLists, ReceiverLists) :
            r.Id \in DOMAIN requests =>
                /\ \A b \in BoardingLists, c \in RecoveredLists, m \in Musig2Values :
                      /\ pushErr(r, b, c) = "duplicated tx request"
                      /\ afterPush(r, b, c, m) = requests
                /\ \A ns \in NoteLists :
                      /\ pushWithNotesErr(r, ns) = "duplicated tx request"
                      /\ afterPushWithNotes(r, ns) = requests)
    /\ [][last'.op \in {"push", "pushWithNotes"} /\ last'.err = "duplicated tx request"
             => requests' = requests]_vars

\* A push has been refused for its id while two requests born and last pinged
\* earlier are queued.
C30_Witness ==
    /\ last.op = "push"
    /\ last.err = "duplicated tx request"
    /\ Cardinality(DOMAIN requests) = 2
    /\ \A id \in DOMAIN requests : /\ requests[id].timestamp < now
                                    /\ requests[id].pingTimestamp < now

\* A pushWithNotes has been refused for its id; the queued request of a later
\* minute than its birth is pinged.
C30_WitnessNotes ==
    /\ last.op = "pushWithNotes"
    /\ last.err = "duplicated tx request"
    /\ \E id \in DOMAIN requests : /\ requests[id].timestamp < now
                                    /\ Pinged(requests[id])

\* No outpoint and no note id occurs twice in a list
NoRepeatedOutpoint(s) == \A i, j \in 1..Len(s) : i # j => ~sameOutpoint(s[i], s[j])
NoRepeatedNote(s) == \A i, j \in 1..Len(s) : i # j => ~sameNote(s[i], s[j])

\* C32: no queued request names an input VTXO, a boarding input, a recovered
\* VTXO or a note twice, so the sum update compares with the receivers counts
\* each of them once.
C32_NoRepeatWithinRequest ==
    \A id \in DOMAIN requests :
        /\ NoRepeatedOutpoint(requests[id].Inputs)
        /\ NoRepeatedOutpoint(requests[id].boardingInputs)
        /\ NoRepeatedOutpoint(requests[id].recoveredVtxos)
        /\ NoRepeatedNote(requests[id].notes)
        /\ InputsTotal(requests[id])
              = Cardinality(OutpointsOf(requests[id].Inputs))
                + Cardinality(OutpointsOf(requests[id].boardingInputs))
                + Cardinality(OutpointsOf(requests[id].recoveredVtxos))
                + Cardinality(NoteIdsOf(requests[id].notes))

\* What the code does: an update has succeeded on a request that holds one
\* note of value 1 twice and now has a receiver of 2
C32_UpdateCountedNoteTwice ==
    /\ last.op = "update" /\ last.err = ""
    /\ \E id \in DOMAIN requests :
          /\ requests[id].notes = <<nA, nA>>
          /\ requests[id].Inputs = <<>>
          /\ requests[id].Receivers = <<rcv2>>

\* C37: a queued request with a receiver that was registered, by push or by
\* pushWithNotes, less than selectGapMinutes ago is among those a pop now
\* selects from, pinged or not, and is not among those the pop deletes
\* as stale.
C37_FreshRequestEligible ==
    \A id \in DOMAIN requests :
        (requests[id].Receivers # <<>> /\ now - requests[id].timestamp < selectGapMinutes)
            => id \in eligible /\ id \notin expired

\* What the code does: a pop has deleted as stale a request registered in
\* the same minute
C37_FreshRequestDeleted ==
    /\ last.op = "pop"
    /\ last.selected = <<>>
    /\ last.deleted # {}
    /\ now = 0

\* The fields of a queued request that are not part of its TxRequest
KeptByUpdate == {"boardingInputs", "notes", "recoveredVtxos", "timestamp", "pingTimestamp"}

\* C39: an update that returns no error stores the given id, inputs and
\* receivers and, when it is given MuSig2 data, that data; it keeps the
\* stored MuSig2 data when given none, keeps the request's boarding inputs,
\* notes, recovered VTXOs, birth and ping timestamps and every other request,
\* and so leaves the order in which pop sorts the requests as it was.
C39_UpdateReplacesTxRequestOnly ==
    \A r \in TxRequests(UpdateInputLists, UpdateReceiverLists), m \in UpdateMusig2 :
        updateErr(r) = "" =>
            LET after == afterUpdate(r, m) IN
            /\ DOMAIN after = DOMAIN requests
            /\ \A id \in DOMAIN requests \ {r.Id} : after[id] = requests[id]
            /\ after[r.Id].Id = r.Id
            /\ after[r.Id].Inputs = r.Inputs
            /\ after[r.Id].Receivers = r.Receivers
            /\ after[r.Id].musig2Data = IF m # Nil THEN m ELSE requests[r.Id].musig2Data
            /\ \A f \in KeptByUpdate : after[r.Id][f] = requests[r.Id][f]
            /\ \A p, q \in DOMAIN requests :
                  before(after[p], after[q]) <=> before(requests[p], requests[q])

\* An update has given new MuSig2 data to the earlier of two queued
\* requests, which was born and pinged before the update and holds a note
C39_Witness ==
    /\ last.op = "update" /\ last.err = ""
    /\ Cardinality(DOMAIN requests) = 2
    /\ \E id, other \in DOMAIN requests :
          /\ requests[id].musig2Data = "m2"
          /\ requests[id].timestamp < now
          /\ requests[id].timestamp < requests[other].timestamp

\* An update without MuSig2 data has succeeded on a queue of one request,
\* which holds the data it was pushed with
C39_WitnessNil ==
    /\ last.op = "update" /\ last.err = ""
    /\ \E id \in DOMAIN requests : /\ requests[id].musig2Data = "m1"
                                    /\ requests[id].Receivers # <<>>
                                    /\ requests[id].timestamp < now

(***************************************************************************)
(* Properties of the forfeit collector                                     *)
(***************************************************************************)
KeysOf(s) == {VtxoKey(s[i]) : i \in DOMAIN s}

\* init has just returned nil for a batch with input vtxos
InitSucceeded == forfeitLast.op = "init" /\ forfeitLast.err = "" /\ Len(vtxos) > 0

\* The place of a vtxo in the batch sorted by "txid:vout": the number of the
\* batch's inputs that are not after it (its last place, if it occurs twice)
PlaceOf(k) == Cardinality({j \in DOMAIN vtxos : ~StringLess(String(k), String(VtxoKey(vtxos[j])))})

\* The i-th smallest txid among the leaves of the connector tree
SmallestLeafTxid(i) ==
    CHOOSE t \in {n.Txid : n \in Elements(Leaves(connectors))} :
        Cardinality({n \in Elements(Leaves(connectors)) :
                        ~StringLess(TxidBytes[t], TxidBytes[n.Txid])}) = i

\* C12: after a successful init the i-th vtxo of the batch sorted by
\* "txid:vout" is bound to output 0 of the connector leaf with the i-th
\* smallest txid, whatever order the tree lists its leaves in.
C12_BoundToLeavesSortedByTxid ==
    InitSucceeded =>
        \A k \in KeysOf(vtxos) :
            connectorsIndex[String(k)] = [Txid |-> SmallestLeafTxid(PlaceOf(k)), VOut |-> 0]

\* C12 as amended: after a successful init the i-th vtxo of the batch sorted
\* by "txid:vout" (string order) is bound to output 0 of the i-th leaf in the
\* order the connector tree lists its leaves; a vtxo that occurs twice in the
\* batch is bound by its last place.
C12_BoundToLeavesAsListed ==
    InitSucceeded =>
        /\ \A i, j \in DOMAIN vtxos :
              i < j => ~StringLess(String(VtxoKey(vtxos[j])), String(VtxoKey(vtxos[i])))
        /\ \A k \in KeysOf(vtxos) :
              connectorsIndex[String(k)] = [Txid |-> Leaves(connectors)[PlaceOf(k)].Txid, VOut |-> 0]

\* init has bound two vtxos whose string order differs from the order of
\* their output numbers, to leaves the tree lists largest txid first.
C12_Witness ==
    /\ InitSucceeded
    /\ KeysOf(vtxos) = {VtxoKey(fA), VtxoKey(fB)}
    /\ connectorsIndex[String(VtxoKey(fA))] = [Txid |-> "y", VOut |-> 0]
    /\ connectorsIndex[String(VtxoKey(fB))] = [Txid |-> "x", VOut |-> 0]

\* C13: init returns an error whenever the batch has more input vtxos than the
\* connector tree has leaves (a tree without leaves included), and returns nil
\* when the batch has at most as many input vtxos as the tree has leaves.
C13_InitFailsIffMoreVtxosThanLeaves ==
    forfeitLast.op = "init" =>
        (forfeitLast.err # "" <=> Len(vtxos) > Len(Leaves(connectors)))

\* init has failed for want of leaves, with a tree that has some
C13_Witness ==
    /\ forfeitLast.op = "init"
    /\ forfeitLast.err = "more vtxos to sign than outpoints"
    /\ Len(Leaves(connectors)) = 1
    /\ Len(vtxos) = 2

\* A second case of C13: init has succeeded with as many vtxos as leaves
C13_WitnessFull ==
    /\ InitSucceeded
    /\ Len(Leaves(connectors)) = Len(vtxos)

\* C14: after a successful init every input vtxo of the batch is bound to
\* output 0 of a leaf of the connector tree, and no two distinct input vtxos
\* are bound to the same connector outpoint.
C14_OneConnectorPerVtxo ==
    InitSucceeded =>
        /\ \A k \in KeysOf(vtxos) :
              /\ String(k) \in DOMAIN connectorsIndex
              /\ connectorsIndex[String(k)] \in
                    {[Txid |-> n.Txid, VOut |-> 0] : n \in Elements(Leaves(connectors))}
        /\ \A k1, k2 \in KeysOf(vtxos) :
              k1 # k2 => connectorsIndex[String(k1)] # connectorsIndex[String(k2)]

\* init has bound two distinct vtxos
C14_Witness ==
    /\ InitSucceeded
    /\ Cardinality(KeysOf(vtxos)) = 2
    /\ Cardinality({connectorsIndex[str] : str \in DOMAIN connectorsIndex}) = 2

\* C15: allSigned is true exactly when sign has recorded a verified forfeit tx
\* for every vtxo init has registered, i.e. when no entry of the forfeit map
\* is empty.
C15_AllSignedIffNoneMissing ==
    /\ allSigned <=> audit.registered \subseteq audit.recorded
    /\ DOMAIN forfeitTxs = audit.registered
    /\ \A k \in DOMAIN forfeitTxs : forfeitTxs[k] # NoForfeit <=> k \in audit.recorded
    /\ forfeitLast.op = "allSigned" =>
          (forfeitLast.err = "true" <=> audit.registered \subseteq audit.recorded)

\* allSigned has answered true for two vtxos ...
C15_Witness ==
    /\ forfeitLast = ForfeitResult("allSigned", "true", {})
    /\ Cardinality(audit.registered) = 2

\* ... and false while one of two is signed
C15_WitnessPartial ==
    /\ forfeitLast = ForfeitResult("allSigned", "false", {})
    /\ Cardinality(audit.registered) = 2
    /\ Cardinality(audit.recorded) = 1

\* C16: pop returns the recorded forfeit txs, one per entry, when no entry is
\* empty; it returns an error and no txs when an entry is empty; and when pop
\* has returned, with either outcome, the collector is empty: no entries, no
\* connectors, no binding, no vtxos.
C16_PopAllOrErrorThenEmpty ==
    /\ IF audit.registered \subseteq audit.recorded
       THEN /\ popErr = ""
            /\ popTxs = {forfeitTxs[k] : k \in audit.registered}
            /\ NoForfeit \notin popTxs
       ELSE /\ popErr = "missing forfeit tx"
            /\ popTxs = {}
    /\ forfeitLast.op = "pop" =>
          /\ forfeitTxs = <<>>
          /\ connectors = <<>>
          /\ connectorsIndex = <<>>
          /\ vtxos = <<>>
          /\ forfeitLast.err # "" => forfeitLast.txs = {}

\* pop has returned two forfeit txs ...
C16_Witness ==
    /\ forfeitLast.op = "pop"
    /\ forfeitLast.err = ""
    /\ Cardinality(forfeitLast.txs) = 2

\* ... and pop has failed on a missing forfeit
C16_WitnessMissing ==
    /\ forfeitLast.op = "pop"
    /\ forfeitLast.err = "missing forfeit tx"

\* C17: whenever pop succeeds it returns as many forfeit txs as the batch
\* given to init has input vtxos, exactly one per input vtxo, each in order
\* and spending the connector outpoint that init bound to that vtxo.
C17_ForfeitCompleteness ==
    (~popping.active /\ popErr = "") =>
        /\ Cardinality(popTxs) = Cardinality(KeysOf(vtxos))
        /\ \A k \in KeysOf(vtxos) :
              \E tx \in popTxs :
                 /\ tx.vtxo = k
                 /\ tx.ok
                 /\ String(k) \in DOMAIN connectorsIndex
                 /\ tx.connector = connectorsIndex[String(k)]
                 /\ \A other \in popTxs : other.vtxo = k => other = tx

\* C34: when init has just returned nil, the keys of the forfeit map are the
\* input VTXOs of the requests it was given and every entry is empty,
\* whatever the map held before.
C34_InitInstallsExactlyItsBatch ==
    (forfeitLast.op = "init" /\ forfeitLast.err = "") =>
        /\ DOMAIN forfeitTxs = KeysOf(vtxos)
        /\ \A k \in DOMAIN forfeitTxs : forfeitTxs[k] = NoForfeit

\* What the code does: an init for one VTXO has returned nil on a collector
\* that keeps the signed entry an earlier init had registered for another
C34_InitKeepsEarlierEntry ==
    /\ forfeitLast.op = "init" /\ forfeitLast.err = ""
    /\ Len(vtxos) = 1
    /\ \E k \in DOMAIN forfeitTxs : k \notin KeysOf(vtxos) /\ forfeitTxs[k] # NoForfeit

C35_WitnessNotInitialized ==
    /\ forfeitLast.op = "sign"
    /\ forfeitLast.err = "forfeit txs map not initialized"
    /\ forfeitTxs = <<>>

\* No verified tx is for a VTXO outside the forfeit map
SignNeverUnexpected ==
    \A txs \in SignLists : signErr(txs) # "unexpected forfeit tx"

\* C36: an init that returns an error leaves the collector's VTXO list,
\* connector tree, forfeit entries and connector binding as they were.
C36_FailedInitChangesNothing ==
    [][(forfeitLast'.op = "init" /\ forfeitLast'.err # "")
          => UNCHANGED <<vtxos, connectors, forfeitTxs, connectorsIndex>>]_vars

\* What the code does: an init has failed for want of connector leaves and
\* the collector holds its batch, its tree and an empty entry for its VTXO
C36_FailedInitInstalledBatch ==
    /\ forfeitLast.op = "init" /\ forfeitLast.err = "no connectors found"
    /\ Len(vtxos) = 1
    /\ DOMAIN forfeitTxs = KeysOf(vtxos)
    /\ connectors = ConnectorTree(<<>>)
    /\ connectorsIndex = <<>>

\* newForfeitTxsMap, and the collector after reset or pop
FreshCollector ==
    forfeitTxs = <<>> /\ connectors = <<>> /\ connectorsIndex = <<>> /\ vtxos = <<>>

\* C38: on a fresh collector an init for requests without input VTXOs
\* returns nil for every connector tree and registers nothing; after it the
\* binding is empty, allSigned is true and pop returns no tx and no error.
C38_InitWithoutVtxos ==
    /\ FreshCollector =>
          \A tree \in ConnectorTrees, requestList \in Batches :
              vtxosToSign(requestList) = <<>> =>
                  /\ initErr(tree, requestList) = ""
                  /\ initForfeitTxs(requestList) = <<>>
    /\ (forfeitLast.op = "init" /\ vtxos = <<>> /\ audit.registered = {}) =>
          /\ forfeitLast.err = ""
          /\ forfeitTxs = <<>>
          /\ connectorsIndex = <<>>
          /\ allSigned
          /\ popErr = ""
          /\ popTxs = {}

\* An init without input VTXOs has returned nil with a connector tree that
\* has no leaves, on a collector that holds nothing else
C38_Witness ==
    /\ forfeitLast.op = "init" /\ forfeitLast.err = ""
    /\ vtxos = <<>> /\ forfeitTxs = <<>> /\ connectorsIndex = <<>>
    /\ connectors = ConnectorTree(<<>>)
    /\ audit.registered = {}

(***************************************************************************)
(* Properties of the rounds                                                *)
(***************************************************************************)
PhaseSteps ==
    {<<"Idle", "Registration">>, <<"Registration", "TreeSigning">>,
     <<"TreeSigning", "ForfeitCollection">>, <<"ForfeitCollection", "Finalization">>,
     <<"Finalization", "Done">>}
    \cup {<<p, "Failed">> : p \in Phases \ {"Done", "Failed"}}

BatchKeys == KeysOf(vtxosToSign(batch))

\* C18: within a round the phase only moves one step along Idle,
\* Registration, TreeSigning, ForfeitCollection, Finalization, Done, or to
\* Failed; a new round starts only after Done or Failed; and a round enters
\* Finalization only from a state in which sign has recorded a forfeit for
\* every input vtxo of the batch and for every other entry of the forfeit
\* map; a round that leaves ForfeitCollection otherwise is Failed.
C18_PhasesInOrderAndFinalizationNeedsAllSigned ==
    [][ /\ (round' = round /\ phase' # phase) => <<phase, phase'>> \in PhaseSteps
        /\ round' # round => (round' = round + 1 /\ phase \in {"Done", "Failed"} /\ phase' = "Idle")
        /\ (phase' = "Finalization" /\ phase # "Finalization") =>
              /\ BatchKeys \subseteq audit.recorded
              /\ audit.registered \subseteq audit.recorded
        /\ (phase = "ForfeitCollection" /\ phase' \notin {"ForfeitCollection", "Finalization"}) =>
              phase' = "Failed"
      ]_vars

\* The second round is Done with the forfeits of both its input vtxos
C18_Witness ==
    /\ phase = "Done"
    /\ round = 2
    /\ Cardinality(roundForfeits.txs) = 2
    /\ Cardinality(BatchKeys) = 2

\* The outpoint lists a redeem submission can ask about
RedeemQueries ==
    LET keys == {VtxoKey(fA), VtxoKey(fB), [Txid |-> "x", VOut |-> 0]} IN
    {<<k>> : k \in keys} \cup {<<k1, k2>> : k1 \in keys, k2 \in keys}

\* C19: the in-round outpoint set holds the inputs of the batch exactly while
\* the round is in Finalization; includesAny answers true, naming one of the
\* queried outpoints that is in the set, exactly when a queried outpoint is in
\* the set; so a redeem submission made during Finalization that spends an
\* input of the batch fails with RoundInProgress.
C19_RedeemRefusedDuringFinalization ==
    /\ outpoints = IF phase = "Finalization" THEN {String(k) : k \in BatchKeys} ELSE {}
    /\ \A q \in RedeemQueries :
          LET r == includesAny(q) IN
          /\ r.found <=> \E i \in DOMAIN q : String(q[i]) \in outpoints
          /\ r.found => (r.name \in outpoints /\ r.name \in {String(q[i]) : i \in DOMAIN q})
          /\ ~r.found => r.name = <<>>
          /\ (phase = "Finalization" /\ KeysOf(q) \cap BatchKeys # {}) =>
                redeemErr(q) = "RoundInProgress"
          /\ (\A i \in DOMAIN q : ~includes(q[i])) => redeemErr(q) = ""

\* During Finalization a redeem of two vtxos, the second of them an input of
\* the batch, has been refused
C19_Witness ==
    /\ phase = "Finalization"
    /\ BatchKeys = {VtxoKey(fA)}
    /\ redeemLast = RedeemResult(<<VtxoKey(fB), VtxoKey(fA)>>, "RoundInProgress",
                                 String(VtxoKey(fA)))

(***************************************************************************)
(* Properties of the sweeper                                               *)
(***************************************************************************)
\* C20: whenever an internal node of the VTXO tree appears on-chain, the
\* sweeper eventually broadcasts the stored forfeit tx of every leaf beneath
\* that node that was marked spent by then.
C20_FraudReactionComplete ==
    \A leaf \in LeafTxids : (leaf \in owed) ~> (leaf \in broadcastForfeits)

\* The root is on-chain and the forfeit of a spent leaf two levels below it
\* has been broadcast, while the node between them is not on-chain
C20_Witness ==
    /\ "t0" \in onchain
    /\ "t1" \notin onchain
    /\ "l1" \in owed
    /\ "l1" \in broadcastForfeits

(***************************************************************************)
(* Properties of the notes                                                 *)
(***************************************************************************)
\* C4: a note is redeemed at most once: no note id is credited twice, a
\* credited note is in the note table, and a redemption carrying a note
\* that is in the table credits nothing.
C4_NoteRedeemedAtMostOnce ==
    /\ \A k \in NoteIds : /\ credited[k] <= 1
                           /\ credited[k] = 1 => k \in noteSet
    /\ (noteLast.op = "RedeemNotes" /\ noteLast.err = "") =>
           \A k \in noteLast.ids : credited[k] = 1

\* A redemption has been refused for a note that an earlier one had been credited for.
C4_Witness ==
    /\ noteLast.op = "RedeemNotes"
    /\ noteLast.err = "AlreadySpent"
    /\ \E k \in noteLast.ids : credited[k] = 1

\* C40: whatever the storage answers, Add makes at least one and at most
\* maxRetries + 1 InsertNote calls and returns the answer of the last one: it
\* calls again only after a conflict, so it returns nil at the first success
\* and another error at once, and when every call conflicts it returns the
\* conflict after the first call and maxRetries retries.
C40_AddTerminates ==
    /\ \A outs \in InsertOutcomes :
          LET run == AddFrom(outs, 1)
              n == run.inserts
          IN  /\ n \in 1..(maxRetries + 1)
              /\ \A j \in 1..(n - 1) : outs[j] = "conflict"
              /\ run.err = IF outs[n] = "ok" THEN "" ELSE outs[n]
              /\ outs[n] = "conflict" => n = maxRetries + 1
              /\ outs[1] = "error" => n = 1 /\ run.err = "error"
              /\ (\A j \in DOMAIN outs : outs[j] = "conflict")
                    => n = maxRetries + 1 /\ run.err = "conflict"
    /\ noteLast.op = "Add" =>
          /\ noteLast.inserts \in 1..(maxRetries + 1)
          /\ noteLast.err \in {"", "conflict", "error"}
          /\ noteLast.err = "conflict" => noteLast.inserts = maxRetries + 1
          /\ noteLast.err = "" => noteLast.ids \subseteq noteSet

\* An Add has given up on a conflict after its last retry
C40_Witness ==
    /\ noteLast.op = "Add"
    /\ noteLast.err = "conflict"
    /\ noteLast.inserts = maxRetries + 1

\* An Add has returned another error after one retry, and one has succeeded
\* at its first retry
C40_WitnessError ==
    noteLast.op = "Add" /\ noteLast.err = "error" /\ noteLast.inserts = 2
C40_WitnessSuccess ==
    noteLast.op = "Add" /\ noteLast.err = "" /\ noteLast.inserts = 2

(***************************************************************************)
(* Properties of the ledger                                                *)
(***************************************************************************)
Done(c) == calls[c].pc = "done"
Overlap(c, d) == calls[c].spend \cap calls[d].spend # {}

\* C5: under every interleaving of the SpendAndMint calls no VTXO is marked
\* spent twice, a call fails only with AlreadySpent, of two calls with a
\* common input at most one succeeds, and once calls that all overlap one
\* another have all returned exactly one of them has succeeded and minted.
C5_SpendAndMintAtomic ==
    /\ \A v \in Vtxos : spentCount[v] <= 1
    /\ \A c \in Callers : Done(c) => calls[c].result \in {"ok", "AlreadySpent"}
    /\ \A c \in Callers : c \in minted <=> (Done(c) /\ calls[c].result = "ok")
    /\ \A c, d \in Callers :
          (c # d /\ Done(c) /\ Done(d) /\ Overlap(c, d)) =>
              ~(calls[c].result = "ok" /\ calls[d].result = "ok")
    /\ ((\A c \in Callers : Done(c)) /\ (\A c, d \in Callers : Overlap(c, d))) =>
          Cardinality({c \in Callers : calls[c].result = "ok"}) = 1

\* The three calls overlap one another and have returned: a redeem call has
\* succeeded and the round's call has failed with AlreadySpent.
C5_Witness ==
    /\ \A c \in Callers : Done(c)
    /\ \A c, d \in Callers : Overlap(c, d)
    /\ calls["round"].result = "AlreadySpent"
    /\ calls["redeem1"].result = "ok"

(***************************************************************************)
(* Properties of the search for sweepable outputs                          *)
(***************************************************************************)
Scanned == scanLast.op = "findSweepableOutputs"
ScanChain == scanLast.env.chain
ConfirmedIn(ch, txid) == ch[txid] # Unconfirmed
TreeTxids == {n.Txid : n \in TreeNodes}

\* How many sweep inputs the last search returned for a tx
Returned(txid) ==
    LET out == scanLast.sweepableOutputs
        Count(list) == Cardinality({i \in 1..Len(list) : list[i] = txid})
        RECURSIVE Sum(_)
        Sum(keys) == IF keys = {} THEN 0
                     ELSE LET k == CHOOSE x \in keys : TRUE
                          IN  Count(out[k]) + Sum(keys \ {k})
    IN  Sum(DOMAIN out)

RoundDoneAtScan ==
    /\ Scanned /\ scanLast.err = ""
    /\ ConfirmedIn(ScanChain, RoundTxid)
    /\ \A txid \in TreeTxids : ~ConfirmedIn(ScanChain, txid)

\* The expiry the search gave a tx it returned
ExpiryOf(txid) ==
    CHOOSE e \in DOMAIN scanLast.sweepableOutputs :
        \E i \in 1..Len(scanLast.sweepableOutputs[e]) : scanLast.sweepableOutputs[e][i] = txid

\* The parent's block height or block time, in the scheduler's unit
ParentStamp(txid) ==
    IF scanLast.env.schedulerUnit = "BlockHeight" THEN ScanChain[ParentOf(txid)]
    ELSE BlockTime(ScanChain[ParentOf(txid)])

\* C22 as stated: when the round is Done the search yields a task for every
\* internal node of the tree, each expiring at its parent's block time plus
\* the relative timelock
C22_DoneSchedulesEveryInternalNode ==
    RoundDoneAtScan =>
        \A txid \in InternalTxids :
            /\ Returned(txid) = 1
            /\ ExpiryOf(txid) = ParentStamp(txid) + vtxoTreeExpiry

\* C22 amended: when the round is Done the search yields one task, for the
\* root of the tree, expiring at the round tx's block time (or height, in the
\* scheduler's unit) plus the relative timelock; every task of any search
\* expires at its parent's block time plus the relative timelock
C22_DoneSchedulesRoot ==
    /\ RoundDoneAtScan =>
           \A txid \in TreeTxids : Returned(txid) = IF txid = "t0" THEN 1 ELSE 0
    /\ (Scanned /\ scanLast.err = "") =>
           \A txid \in TreeTxids :
               Returned(txid) > 0 => ExpiryOf(txid) = ParentStamp(txid) + vtxoTreeExpiry

\* A search in timestamps at a Done round whose round tx was confirmed at height 2
C22_Witness ==
    /\ RoundDoneAtScan
    /\ scanLast.env.schedulerUnit = "Timestamp"
    /\ ScanChain[RoundTxid] = 2
    /\ Returned("t0") = 1

\* The expiration keys under which the last search filed a tx
KeysOfTx(txid) ==
    {e \in DOMAIN scanLast.sweepableOutputs :
        \E i \in 1..Len(scanLast.sweepableOutputs[e]) : scanLast.sweepableOutputs[e][i] = txid}

\* The last search asked for a tx whose query fails, or met an unconfirmed
\* node whose parent is unconfirmed or cannot be asked for
ScanMustFail ==
    \E txid \in scanLast.inspected :
        \/ txid \in scanLast.env.faulty
        \/ /\ ~ConfirmedIn(ScanChain, txid)
           /\ \/ ~ConfirmedIn(ScanChain, ParentOf(txid))
              \/ ParentOf(txid) \in scanLast.env.faulty

\* C31: every sweep input a search returns is filed once, under one
\* expiration key, which is the block height of its parent tx when the
\* scheduler counts blocks and its block time otherwise, plus the relative
\* timelock; a search that meets an unconfirmed node with an unconfirmed
\* parent, or a failing wallet query, returns an error and no map.
C31_SweepInputFiledUnderParentExpiry ==
    Scanned =>
        /\ scanLast.err = "" =>
              /\ \A e \in DOMAIN scanLast.sweepableOutputs :
                    /\ scanLast.sweepableOutputs[e] # <<>>
                    /\ \A i \in 1..Len(scanLast.sweepableOutputs[e]) :
                          LET txid == scanLast.sweepableOutputs[e][i]
                          IN  /\ txid \in TreeTxids
                              /\ Returned(txid) = 1
                              /\ KeysOfTx(txid) = {e}
                              /\ e = ParentStamp(txid) + vtxoTreeExpiry
        /\ ScanMustFail => scanLast.err # ""
        /\ scanLast.err # "" => scanLast.sweepableOutputs = <<>> /\ ScanMustFail

\* A search in block heights has filed the two leaves beneath t1 under one
\* key and l3, whose parent was confirmed earlier, under another
C31_Witness ==
    /\ Scanned /\ scanLast.err = ""
    /\ scanLast.env.schedulerUnit = "BlockHeight"
    /\ KeysOfTx("l1") = KeysOfTx("l2")
    /\ KeysOfTx("l1") = {ScanChain["t1"] + vtxoTreeExpiry}
    /\ KeysOfTx("l3") = {ScanChain["t0"] + vtxoTreeExpiry}
    /\ ScanChain["t0"] < ScanChain["t1"]

\* A search has failed on a wallet query after the root was found confirmed
C31_WitnessWalletFails ==
    /\ Scanned /\ scanLast.err = "wallet"
    /\ ConfirmedIn(ScanChain, "t0")
    /\ scanLast.sweepableOutputs = <<>>

\* A search has failed because the round tx could not be asked for
C31_WitnessParentFails ==
    /\ Scanned /\ scanLast.err = "tx not found"
    /\ ConfirmedIn(ScanChain, RoundTxid)
    /\ scanLast.env.faulty = {RoundTxid}

(***************************************************************************)
(* Properties of the redeem of CLTV-locked VTXOs                           *)
(***************************************************************************)
\* C23: a redeem tx that spends an unspent VTXO through a CLTV closure, its
\* other checks passing, is rejected while the tip is below the closure's
\* absolute locktime and accepted once the tip has reached it
C23_CltvRedeemNeedsTipAtLocktime ==
    (/\ cltvLast.op = "SubmitRedeemTx"
     /\ cltvLast.checksPass
     /\ cltvLast.err # "already spent") =>
        (cltvLast.err = "" <=> cltvLast.height >= cltvVtxos[cltvLast.vtxo].locktime)

\* A redeem refused below the locktime has succeeded at the locktime, when
\* the blocks the closure asked for had been mined
C23_Witness ==
    /\ cltvLast.op = "SubmitRedeemTx"
    /\ cltvLast.vtxo \in refused
    /\ cltvLast.err = ""
    /\ cltvLast.height = cltvVtxos[cltvLast.vtxo].locktime
    /\ cltvVtxos[cltvLast.vtxo].spent

(***************************************************************************)
(* Properties of the MuSig2 encoding                                       *)
(***************************************************************************)
\* C24: decoding the encoding of a nonce matrix or of a partial-signature
\* matrix succeeds and yields the same rows with the same value at every
\* position, and nothing at the positions that hold nothing
C24_EncodeDecodeRoundTrip ==
    decodedMatrix # NotDecoded =>
        /\ decodedMatrix.err = ""
        /\ Len(decodedMatrix.matrix) = Len(treeMatrix.cells)
        /\ \A i \in 1..Len(treeMatrix.cells) :
               /\ Len(decodedMatrix.matrix[i]) = Len(treeMatrix.cells[i])
               /\ \A j \in 1..Len(treeMatrix.cells[i]) :
                      decodedMatrix.matrix[i][j] = treeMatrix.cells[i][j]

\* A partial-signature matrix with a signature and an empty position in one
\* row has been encoded and decoded
C24_Witness ==
    /\ decodedMatrix # NotDecoded
    /\ treeMatrix.kind = "sigs"
    /\ Len(treeMatrix.cells) = 2
    /\ treeMatrix.cells[2] = <<NilCell, <<1>> >>
    /\ decodedMatrix.matrix[2][1] = NilCell

(***************************************************************************)
(* Properties of the MuSig2 signing of the tree                            *)
(***************************************************************************)
\* The partial signatures the coordinator holds are the ones honest signers make
EverySignerSignedValidly ==
    /\ aggregatedNonces.err = ""
    /\ DOMAIN coordSigs = AllSigners(sigBatch.receivers)
    /\ \A signer \in DOMAIN coordSigs :
           coordSigs[signer] = Sign(sigBatch, TreeSigners(sigBatch.receivers), signer,
                                    aggregatedNonces.nonces, TRUE)

\* C25: for every batch (all SignAll, all SignBranch or mixed), once every
\* cosigner and the server have submitted their nonces and then valid partial
\* signatures, SignTree succeeds, and the tree it returns is one that
\* ValidateTreeSigs accepts
C25_SignedTreeValidates ==
    /\ (signedTree # NotSigned /\ EverySignerSignedValidly) => signedTree.err = ""
    /\ treeValid # "invalid"

\* A tree of two receivers, one SignAll and one SignBranch, was signed by
\* all three signers and validated
C25_Witness ==
    /\ Len(sigBatch.receivers) = 2
    /\ sigBatch.receivers[1] = "SignAll" /\ sigBatch.receivers[2] = "SignBranch"
    /\ EverySignerSignedValidly
    /\ signedTree.err = ""
    /\ treeValid = "valid"

\* A signer's bad partial signature made SignTree fail
C25_WitnessRejected ==
    /\ DOMAIN coordSigs = AllSigners(sigBatch.receivers)
    /\ signedTree.err = "invalid partial signature"

(***************************************************************************)
(* Properties of the queue under concurrent callers                        *)
(***************************************************************************)
\* C26: whatever the interleaving of the goroutines, every call returns what
\* it returns, and leaves the queue as it leaves it, when run alone at the
\* moment it took the lock (so the calls are as if run one after another in
\* the order of their locks, and a view sees no half-applied mutation); no
\* goroutine holds the lock while another holds it for writing; and no two
\* queued requests share an input, so of two concurrent pushes that share
\* one at most one is accepted
C26_QueueCallsAreAtomic ==
    /\ lockedLast.op # "new" =>
           Outcome(lockedLast.after, lockedLast.result) \in lockedLast.expect
    /\ Cardinality(qlock.writers) <= 1
    /\ qlock.writers # {} => qlock.readers = {}
    /\ \A id1, id2 \in DOMAIN requests :
           id1 # id2 =>
               ~\E i \in 1..Len(requests[id1].Inputs), j \in 1..Len(requests[id2].Inputs) :
                    sameOutpoint(requests[id1].Inputs[i], requests[id2].Inputs[j])

\* A push was refused for an input that another goroutine had queued, while
\* a third call, a view, waits for the lock that a pop holds between its deletes
C26_Witness ==
    /\ lockedLast.op = "push"
    /\ lockedLast.result = "duplicated input"
    /\ \E t1, t2 \in Threads :
           /\ threads[t1].call.op = "pop" /\ threads[t1].pc = "write"
           /\ threads[t1].local # <<>>
           /\ threads[t2].call.op = "viewAll" /\ threads[t2].pc = "lock"

\* Two goroutines read the queue at the same time
C26_WitnessReaders == Cardinality(qlock.readers) = 2

(***************************************************************************)
(* Properties of the forfeit collector under its callers' goroutines       *)
(***************************************************************************)
\* C27: under any interleaving of the clients' sign calls with the
\* coordinator's init, allSigned, pop and reset, no method reads the forfeit
\* map while another writes it, and no two write it at once
C27_NoReadDuringWrite ==
    \A g, h \in Goroutines :
        g # h => ~(Writing(g) /\ (Reading(h) \/ Writing(h)))

\* C33: from the moment pop has read the forfeit entries until its reset has
\* run, the entries are those pop read: no sign and no init of another
\* goroutine takes effect in between, so the reset erases nothing pop has
\* not seen.
C33_PopAtomicWithReset ==
    popping.active => /\ popping.err = popErr
                      /\ popping.txs = popTxs

\* What the code allows: a pop has failed for a missing forfeit and released
\* the lock, a client's sign has then recorded that forfeit, and pop's reset,
\* which is waiting for the lock, will erase it
C33_SignBetweenPopAndReset ==
    /\ popping.active /\ popping.err = "missing forfeit tx"
    /\ goroutines["coordinator"].op = "pop.reset" /\ goroutines["coordinator"].pc = "lock"
    /\ forfeitLast.op = "sign" /\ forfeitLast.err = ""
    /\ allSigned /\ forfeitTxs # <<>>

====
